---------------------------- MODULE Spec2Model ----------------------------
(***************************************************************************)
(* Builtin evaluation of libminizinc (src/lib/builtins.cpp).               *)
(*                                                                         *)
(* The evaluator is a state machine: a builtin is called on arguments      *)
(* (call) and leaves a value or a raised error (result).  Builtins that    *)
(* run the fixed-value chase are modelled step by step (pc, cur, idx,      *)
(* examined); the others complete in one step.                             *)
(***************************************************************************)
EXTENDS Integers, Sequences, FiniteSets, TLC

VARIABLES
    call,       \* the builtin being evaluated and its arguments
    result,     \* what the evaluation left: a value or a raised error
    pc,         \* position of a chase-based builtin: "idle", "chase", "done"
    cur,        \* exp_is_fixed: the expression the chase is at
    idx,        \* fix_array / is_fixed_array: index of the element in work
    examined,   \* indices of the elements handed to exp_is_fixed so far
    env         \* the expressions of the model under evaluation

vars == <<call, result, pc, cur, idx, examined, env>>

----------------------------------------------------------------------------
(* Bounds of the model *)

\* integer (and float sample) values range over -MaxVal..MaxVal
MaxVal == 2
\* arrays hold at most MaxLen elements
MaxLen == 3

Vals == (-MaxVal)..MaxVal

RECURSIVE SeqsUpTo(_, _)
SeqsUpTo(S, n) ==
    IF n = 0 THEN {<<>>}
    ELSE LET shorter == SeqsUpTo(S, n - 1)
         IN  shorter \cup {Append(s, x) : s \in {t \in shorter : Len(t) = n - 1}, x \in S}

Arrays == SeqsUpTo(Vals, MaxLen)

----------------------------------------------------------------------------
(* Results *)

NoCall == [fn |-> "none"]
\* the null pointer, where an expression is expected
NULL == [k |-> "NULL", par |-> FALSE]
NoResult == [kind |-> "none"]

IntResult(v)   == [kind |-> "IntVal", val |-> v]
FloatResult(v) == [kind |-> "FloatVal", val |-> v]
ResultUndefinedError(m) == [kind |-> "ResultUndefinedError", msg |-> m]
EvalError(m)            == [kind |-> "EvalError", msg |-> m]

IsValue(r) == r.kind \in {"IntVal", "FloatVal"}

\* a one-step builtin is entered when no evaluation is under way, and leaves
\* the chase variables alone
ChaseIdle ==
    /\ call = NoCall
    /\ pc = "idle"
    /\ UNCHANGED <<pc, cur, idx, examined, env>>

\* the caller (the flattening pass) takes the value or the error of a finished
\* evaluation; the evaluator is ready for the next call
Return ==
    /\ call # NoCall
    /\ pc \in {"idle", "done"}
    /\ call' = NoCall
    /\ result' = NoResult
    /\ pc' = "idle"
    /\ cur' = NULL
    /\ idx' = 0
    /\ examined' = <<>>
    /\ UNCHANGED env

----------------------------------------------------------------------------
(* min / max, src/lib/builtins.cpp 86-132 and 564-610 *)

\* std::min(a,b): b if b < a, else a
std_min(a, b) == IF b < a THEN b ELSE a
\* std::max(a,b): b if a < b, else a
std_max(a, b) == IF a < b THEN b ELSE a

\* for (i=1; i<al->size(); i++) m = std::min(m, al[i])   (i is 0-based there)
RECURSIVE min_loop(_, _, _)
min_loop(al, i, m) ==
    IF i > Len(al) THEN m ELSE min_loop(al, i + 1, std_min(m, al[i]))

RECURSIVE max_loop(_, _, _)
max_loop(al, i, m) ==
    IF i > Len(al) THEN m ELSE max_loop(al, i + 1, std_max(m, al[i]))

\* a plausible slip: the scan stops one element early
b_int_min_short(c) ==
    CASE c.n_args = 1 ->
           IF c.is_set THEN EvalError("sets not supported")
           ELSE IF Len(c.al) = 0
                THEN ResultUndefinedError("minimum of empty array is undefined")
                ELSE IntResult(min_loop(SubSeq(c.al, 1, Len(c.al) - 1), 2, c.al[1]))
      [] c.n_args = 2 -> IntResult(std_min(c.a, c.b))
      [] OTHER -> EvalError("dynamic type error")

b_int_min(c) ==
    CASE c.n_args = 1 ->
           IF c.is_set THEN EvalError("sets not supported")
           ELSE IF Len(c.al) = 0
                THEN ResultUndefinedError("minimum of empty array is undefined")
                ELSE IntResult(min_loop(c.al, 2, c.al[1]))
      [] c.n_args = 2 -> IntResult(std_min(c.a, c.b))
      [] OTHER -> EvalError("dynamic type error")

b_int_max(c) ==
    CASE c.n_args = 1 ->
           IF c.is_set THEN EvalError("sets not supported")
           ELSE IF Len(c.al) = 0
                THEN ResultUndefinedError("maximum of empty array is undefined")
                ELSE IntResult(max_loop(c.al, 2, c.al[1]))
      [] c.n_args = 2 -> IntResult(std_max(c.a, c.b))
      [] OTHER -> EvalError("dynamic type error")

b_float_min(c) ==
    CASE c.n_args = 1 ->
           IF c.is_set THEN EvalError("sets not supported")
           ELSE IF Len(c.al) = 0
                THEN EvalError("min on empty array undefined")
                ELSE FloatResult(min_loop(c.al, 2, c.al[1]))
      [] c.n_args = 2 -> FloatResult(std_min(c.a, c.b))
      [] OTHER -> EvalError("dynamic type error")

b_float_max(c) ==
    CASE c.n_args = 1 ->
           IF c.is_set THEN EvalError("sets not supported")
           ELSE IF Len(c.al) = 0
                THEN EvalError("max on empty array undefined")
                ELSE FloatResult(max_loop(c.al, 2, c.al[1]))
      [] c.n_args = 2 -> FloatResult(std_max(c.a, c.b))
      [] OTHER -> EvalError("dynamic type error")

\* the calls of min and max the evaluator can receive: one array argument
\* (possibly of set type), two scalars, or a wrong argument count
MinMaxCalls(f) ==
    {[fn |-> f, n_args |-> 1, is_set |-> s, al |-> al, a |-> 0, b |-> 0] :
        s \in BOOLEAN, al \in Arrays}
    \cup {[fn |-> f, n_args |-> 2, is_set |-> FALSE, al |-> <<>>, a |-> a, b |-> b] :
        a \in Vals, b \in Vals}
    \cup {[fn |-> f, n_args |-> 3, is_set |-> FALSE, al |-> <<>>, a |-> 0, b |-> 0]}

Call_b_int_min ==
    /\ ChaseIdle
    /\ \E c \in MinMaxCalls("b_int_min") :
          /\ call' = c
          /\ result' = b_int_min(c)

Call_b_int_max ==
    /\ ChaseIdle
    /\ \E c \in MinMaxCalls("b_int_max") :
          /\ call' = c
          /\ result' = b_int_max(c)

Call_b_float_min ==
    /\ ChaseIdle
    /\ \E c \in MinMaxCalls("b_float_min") :
          /\ call' = c
          /\ result' = b_float_min(c)

Call_b_float_max ==
    /\ ChaseIdle
    /\ \E c \in MinMaxCalls("b_float_max") :
          /\ call' = c
          /\ result' = b_float_max(c)

----------------------------------------------------------------------------
(* arg_min / arg_max, src/lib/builtins.cpp 134-197 *)

\* the scan of b_arg_min_*: i runs over the elements after the first,
\* (m, m_idx) is replaced only on a strictly smaller element
RECURSIVE arg_min_loop(_, _, _, _)
arg_min_loop(al, i, m, m_idx) ==
    IF i > Len(al) THEN m_idx
    ELSE IF al[i] < m THEN arg_min_loop(al, i + 1, al[i], i - 1)
         ELSE arg_min_loop(al, i + 1, m, m_idx)

RECURSIVE arg_max_loop(_, _, _, _)
arg_max_loop(al, i, m, m_idx) ==
    IF i > Len(al) THEN m_idx
    ELSE IF al[i] > m THEN arg_max_loop(al, i + 1, al[i], i - 1)
         ELSE arg_max_loop(al, i + 1, m, m_idx)

\* a plausible slip: <= in place of <, which keeps the last occurrence
RECURSIVE arg_min_loop_le(_, _, _, _)
arg_min_loop_le(al, i, m, m_idx) ==
    IF i > Len(al) THEN m_idx
    ELSE IF al[i] <= m THEN arg_min_loop_le(al, i + 1, al[i], i - 1)
         ELSE arg_min_loop_le(al, i + 1, m, m_idx)

b_arg_min_int_le(c) ==
    IF Len(c.al) = 0
    THEN ResultUndefinedError("argmin of empty array is undefined")
    ELSE IntResult(arg_min_loop_le(c.al, 2, c.al[1], 0) + 1)

b_arg_min_int(c) ==
    IF Len(c.al) = 0
    THEN ResultUndefinedError("argmin of empty array is undefined")
    ELSE IntResult(arg_min_loop(c.al, 2, c.al[1], 0) + 1)

b_arg_max_int(c) ==
    IF Len(c.al) = 0
    THEN ResultUndefinedError("argmax of empty array is undefined")
    ELSE IntResult(arg_max_loop(c.al, 2, c.al[1], 0) + 1)

b_arg_min_float(c) ==
    IF Len(c.al) = 0
    THEN ResultUndefinedError("argmin of empty array is undefined")
    ELSE IntResult(arg_min_loop(c.al, 2, c.al[1], 0) + 1)

b_arg_max_float(c) ==
    IF Len(c.al) = 0
    THEN ResultUndefinedError("argmax of empty array is undefined")
    ELSE IntResult(arg_max_loop(c.al, 2, c.al[1], 0) + 1)

ArrayCalls(f) == {[fn |-> f, al |-> al] : al \in Arrays}

Call_b_arg_min_int ==
    /\ ChaseIdle
    /\ \E c \in ArrayCalls("b_arg_min_int") :
          /\ call' = c
          /\ result' = b_arg_min_int(c)

Call_b_arg_max_int ==
    /\ ChaseIdle
    /\ \E c \in ArrayCalls("b_arg_max_int") :
          /\ call' = c
          /\ result' = b_arg_max_int(c)

Call_b_arg_min_float ==
    /\ ChaseIdle
    /\ \E c \in ArrayCalls("b_arg_min_float") :
          /\ call' = c
          /\ result' = b_arg_min_float(c)

Call_b_arg_max_float ==
    /\ ChaseIdle
    /\ \E c \in ArrayCalls("b_arg_max_float") :
          /\ call' = c
          /\ result' = b_arg_max_float(c)

----------------------------------------------------------------------------
(* sum / product, src/lib/builtins.cpp 392-414 *)

\* for (i=0; i<al->size(); i++) m += al[i]
RECURSIVE sum_loop(_, _, _)
sum_loop(al, i, m) ==
    IF i > Len(al) THEN m ELSE sum_loop(al, i + 1, m + al[i])

\* for (i=0; i<al->size(); i++) m *= al[i]
RECURSIVE product_loop(_, _, _)
product_loop(al, i, m) ==
    IF i > Len(al) THEN m ELSE product_loop(al, i + 1, m * al[i])

b_sum_int(c) ==
    IF Len(c.al) = 0 THEN IntResult(0)
    ELSE IntResult(sum_loop(c.al, 1, 0))

\* a plausible slip: the empty product answered like the empty sum
b_product_int_zero(c) ==
    IF Len(c.al) = 0 THEN IntResult(0)
    ELSE IntResult(product_loop(c.al, 1, 1))

b_product_int(c) ==
    IF Len(c.al) = 0 THEN IntResult(1)
    ELSE IntResult(product_loop(c.al, 1, 1))

Call_b_sum_int ==
    /\ ChaseIdle
    /\ \E c \in ArrayCalls("b_sum_int") :
          /\ call' = c
          /\ result' = b_sum_int(c)

Call_b_product_int ==
    /\ ChaseIdle
    /\ \E c \in ArrayCalls("b_product_int") :
          /\ call' = c
          /\ result' = b_product_int(c)

----------------------------------------------------------------------------
(* The reductions as a state machine *)

InitIdle ==
    /\ call = NoCall
    /\ result = NoResult
    /\ pc = "idle"
    /\ cur = NULL
    /\ idx = 0
    /\ examined = <<>>
    /\ env = NULL

NextReduce ==
    \/ Call_b_int_min
    \/ Call_b_int_max
    \/ Call_b_float_min
    \/ Call_b_float_max
    \/ Call_b_arg_min_int
    \/ Call_b_arg_max_int
    \/ Call_b_arg_min_float
    \/ Call_b_arg_max_float
    \/ Call_b_sum_int
    \/ Call_b_product_int
    \/ Return

SpecReduce == InitIdle /\ [][NextReduce]_vars

----------------------------------------------------------------------------
(* Claims on the reductions, checked under SpecReduce *)

IsMinMaxCall == call.fn \in {"b_int_min", "b_int_max", "b_float_min", "b_float_max"}

\* C1: every overload of one-argument min and max (integer and float) raises
\* ResultUndefined on an empty array, not EvalError and not a value; the
\* two-argument forms never fail.
C1_EmptyMinMaxIsResultUndefined ==
    IsMinMaxCall =>
        /\ (call.n_args = 1 /\ ~call.is_set /\ call.al = <<>>)
              => result.kind = "ResultUndefinedError"
        /\ call.n_args = 2 => IsValue(result)

\* C2: for a non-empty integer array A, min(A) and max(A) are elements of A
\* with min(A) <= A[i] <= max(A) for every i; min(a,b) and max(a,b) are the
\* smaller and the larger of the two arguments.
C2_IntMinMaxBoundsElements ==
    /\ (call.fn = "b_int_min" /\ call.n_args = 1 /\ ~call.is_set /\ call.al # <<>>) =>
          /\ result.kind = "IntVal"
          /\ \E i \in 1..Len(call.al) : call.al[i] = result.val
          /\ \A i \in 1..Len(call.al) : result.val <= call.al[i]
    /\ (call.fn = "b_int_max" /\ call.n_args = 1 /\ ~call.is_set /\ call.al # <<>>) =>
          /\ result.kind = "IntVal"
          /\ \E i \in 1..Len(call.al) : call.al[i] = result.val
          /\ \A i \in 1..Len(call.al) : call.al[i] <= result.val
    /\ (call.fn = "b_int_min" /\ call.n_args = 2) =>
          /\ result.kind = "IntVal"
          /\ result.val \in {call.a, call.b}
          /\ result.val <= call.a /\ result.val <= call.b
    /\ (call.fn = "b_int_max" /\ call.n_args = 2) =>
          /\ result.kind = "IntVal"
          /\ result.val \in {call.a, call.b}
          /\ result.val >= call.a /\ result.val >= call.b

\* the minimum of a three-element array was found at its last position
C2_Witness ==
    /\ call.fn = "b_int_min" /\ call.n_args = 1 /\ ~call.is_set
    /\ Len(call.al) = 3
    /\ call.al[3] < call.al[1] /\ call.al[3] < call.al[2]
    /\ result = IntResult(call.al[3])

\* reduce(op, A, init): the left fold ((init op A[1]) op A[2]) ... op A[n]
RECURSIVE reduce(_, _, _)
reduce(op(_, _), A, init) ==
    IF A = <<>> THEN init
    ELSE op(reduce(op, SubSeq(A, 1, Len(A) - 1), init), A[Len(A)])

Plus(x, y) == x + y
Times(x, y) == x * y

\* C3: for every integer array A, the empty one included, sum(A) is the left
\* fold of + from 0 and product(A) the left fold of * from 1; sum([]) = 0 and
\* product([]) = 1 and neither raises.
C3_SumProductAreFolds ==
    /\ call.fn = "b_sum_int" =>
          /\ result = IntResult(reduce(Plus, call.al, 0))
          /\ call.al = <<>> => result = IntResult(0)
    /\ call.fn = "b_product_int" =>
          /\ result = IntResult(reduce(Times, call.al, 1))
          /\ call.al = <<>> => result = IntResult(1)

\* the product of three elements, none of them 0 or 1, was taken
C3_Witness ==
    /\ call.fn = "b_product_int"
    /\ Len(call.al) = 3
    /\ \A i \in 1..3 : call.al[i] \notin {0, 1}
    /\ result = IntResult(call.al[1] * call.al[2] * call.al[3])

IsArgMin == call.fn \in {"b_arg_min_int", "b_arg_min_float"}
IsArgMax == call.fn \in {"b_arg_max_int", "b_arg_max_float"}

\* C4: on a non-empty array arg_min (arg_max) returns the 1-based position of
\* the first occurrence of the minimum (maximum), a position in 1..length; on
\* an empty array both raise ResultUndefined.
C4_ArgMinMaxFirstOccurrence ==
    /\ ((IsArgMin \/ IsArgMax) /\ call.al = <<>>) =>
          result.kind = "ResultUndefinedError"
    /\ (IsArgMin /\ call.al # <<>>) =>
          /\ result.kind = "IntVal"
          /\ result.val \in 1..Len(call.al)
          /\ \A j \in 1..Len(call.al) : call.al[result.val] <= call.al[j]
          /\ \A j \in 1..(result.val - 1) : call.al[j] > call.al[result.val]
    /\ (IsArgMax /\ call.al # <<>>) =>
          /\ result.kind = "IntVal"
          /\ result.val \in 1..Len(call.al)
          /\ \A j \in 1..Len(call.al) : call.al[result.val] >= call.al[j]
          /\ \A j \in 1..(result.val - 1) : call.al[j] < call.al[result.val]

\* the minimum occurs twice, at positions 2 and 3, and position 2 is returned
C4_Witness ==
    /\ call.fn = "b_arg_min_int"
    /\ Len(call.al) = 3
    /\ call.al[2] = call.al[3] /\ call.al[2] < call.al[1]
    /\ result = IntResult(2)

----------------------------------------------------------------------------
(* Integer values with infinities, bounds and range sets *)

\* IntVal: a finite integer or one of the two infinities
Fin(v)   == [inf |-> FALSE, v |-> v]
PlusInf  == [inf |-> TRUE, v |-> 1]
MinusInf == [inf |-> TRUE, v |-> -1]
isFinite(x) == ~x.inf

\* IntVal::maxint() and IntVal::minint(), the starting values of the running
\* minimum and maximum; the model's integers are 32 bits wide
maxint == 2147483647
minint == -2147483647

\* IntBounds: (l, u, valid), the answer of compute_int_bounds
IntBounds(l, u, valid) == [l |-> l, u |-> u, valid |-> valid]

\* an IntSetVal is the ascending sequence of its ranges
Range(m, n) == [min |-> m, max |-> n]
IntSetResult(isv) == [kind |-> "IntSetVal", isv |-> isv]

\* IntSetVal::a(m, n): the set m..n, empty when m > n
IntSetVal_a(m, n) == IF m > n THEN <<>> ELSE <<Range(Fin(m), Fin(n))>>

\* constants().infinity->isv(): the set -infinity..+infinity
infinity_isv == <<Range(MinusInf, PlusInf)>>

\* IntVal operator/ : C++ integer division, truncating towards zero
Abs(x) == IF x < 0 THEN -x ELSE x
TruncDiv(x, y) ==
    LET q == Abs(x) \div Abs(y)
    IN  IF (x < 0) # (y < 0) THEN -q ELSE q

\* Ranges::Diff over two Ranges::Const: the ranges of l..u that are left
\* when a..b is taken out, in ascending order
Ranges_Diff(l, u, a, b) ==
    (IF l < a /\ l <= u THEN <<[min |-> l, max |-> std_min(u, a - 1)]>> ELSE <<>>)
    \o (IF u > b /\ l <= u THEN <<[min |-> std_max(l, b + 1), max |-> u]>> ELSE <<>>)

----------------------------------------------------------------------------
(* compute_div_bounds, src/lib/builtins.cpp 897-939 *)

\* dividend and divisor bounds go up to MaxDiv in absolute value
MaxDiv == 4

\* the eight std::min / std::max updates of one divisor sub-interval r
corners_min(m, bx, r) ==
    std_min(std_min(std_min(std_min(m,
        TruncDiv(bx.l.v, r.min)), TruncDiv(bx.l.v, r.max)),
        TruncDiv(bx.u.v, r.min)), TruncDiv(bx.u.v, r.max))

corners_max(m, bx, r) ==
    std_max(std_max(std_max(std_max(m,
        TruncDiv(bx.l.v, r.min)), TruncDiv(bx.l.v, r.max)),
        TruncDiv(bx.u.v, r.min)), TruncDiv(bx.u.v, r.max))

\* a plausible slip: the second sub-interval of the divisor is forgotten
b_compute_div_bounds_first_only(c) ==
    IF ~c.bx.valid THEN EvalError("cannot determine bounds")
    ELSE IF ~isFinite(c.bx.l) \/ ~isFinite(c.bx.u) THEN IntSetResult(infinity_isv)
    ELSE IF ~c.by.valid THEN EvalError("cannot determine bounds")
    ELSE IF ~isFinite(c.by.l) \/ ~isFinite(c.by.u) THEN IntSetResult(infinity_isv)
    ELSE LET byr0 == Ranges_Diff(c.by.l.v, c.by.u.v, 0, 0)
             min1 == IF Len(byr0) >= 1 THEN corners_min(maxint, c.bx, byr0[1]) ELSE maxint
             max1 == IF Len(byr0) >= 1 THEN corners_max(minint, c.bx, byr0[1]) ELSE minint
         IN  IntSetResult(IntSetVal_a(min1, max1))

b_compute_div_bounds(c) ==
    IF ~c.bx.valid THEN EvalError("cannot determine bounds")
    ELSE IF ~isFinite(c.bx.l) \/ ~isFinite(c.bx.u) THEN IntSetResult(infinity_isv)
    ELSE IF ~c.by.valid THEN EvalError("cannot determine bounds")
    ELSE IF ~isFinite(c.by.l) \/ ~isFinite(c.by.u) THEN IntSetResult(infinity_isv)
    ELSE LET byr0 == Ranges_Diff(c.by.l.v, c.by.u.v, 0, 0)
             min1 == IF Len(byr0) >= 1 THEN corners_min(maxint, c.bx, byr0[1]) ELSE maxint
             max1 == IF Len(byr0) >= 1 THEN corners_max(minint, c.bx, byr0[1]) ELSE minint
             min2 == IF Len(byr0) >= 2 THEN corners_min(min1, c.bx, byr0[2]) ELSE min1
             max2 == IF Len(byr0) >= 2 THEN corners_max(max1, c.bx, byr0[2]) ELSE max1
         IN  IntSetResult(IntSetVal_a(min2, max2))

\* what compute_int_bounds can answer for an argument: no bounds, or
\* l..u with l <= u, either end possibly infinite
DivVals == (-MaxDiv)..MaxDiv

BoundsAnswers ==
    {IntBounds(Fin(0), Fin(0), FALSE)}
    \cup {IntBounds(Fin(lu[1]), Fin(lu[2]), TRUE) :
             lu \in {p \in DivVals \X DivVals : p[1] <= p[2]}}
    \cup {IntBounds(MinusInf, Fin(u), TRUE) : u \in DivVals}
    \cup {IntBounds(Fin(l), PlusInf, TRUE) : l \in DivVals}
    \cup {IntBounds(MinusInf, PlusInf, TRUE)}

Call_b_compute_div_bounds ==
    /\ ChaseIdle
    /\ \E bx \in BoundsAnswers, by \in BoundsAnswers :
          /\ call' = [fn |-> "b_compute_div_bounds", bx |-> bx, by |-> by]
          /\ result' = b_compute_div_bounds(call')

NextDiv ==
    \/ Call_b_compute_div_bounds
    \/ Return

SpecDiv == InitIdle /\ [][NextDiv]_vars

\* the call has finite bounds for both arguments
DivFiniteCall ==
    /\ call.fn = "b_compute_div_bounds"
    /\ call.bx.valid /\ isFinite(call.bx.l) /\ isFinite(call.bx.u)
    /\ call.by.valid /\ isFinite(call.by.l) /\ isFinite(call.by.u)

\* C5: compute_div_bounds is sound: for finite dividend bounds lx..ux and
\* finite divisor bounds ly..uy that hold a non-zero value, the returned
\* interval lo..hi has lo <= x/y <= hi (truncating division) for every x in
\* lx..ux and every non-zero y in ly..uy.
C5_DivBoundsSound ==
    (/\ DivFiniteCall
     /\ \E y \in call.by.l.v..call.by.u.v : y # 0) =>
        /\ result.kind = "IntSetVal"
        /\ Len(result.isv) = 1
        /\ isFinite(result.isv[1].min) /\ isFinite(result.isv[1].max)
        /\ \A x \in call.bx.l.v..call.bx.u.v :
             \A y \in (call.by.l.v..call.by.u.v) \ {0} :
                /\ result.isv[1].min.v <= TruncDiv(x, y)
                /\ TruncDiv(x, y) <= result.isv[1].max.v

\* dividend and divisor bounds both straddle zero, so the divisor was split
\* in two sub-intervals, and the extreme quotients come from different ones
C5_Witness ==
    /\ DivFiniteCall
    /\ call.bx = IntBounds(Fin(-3), Fin(4), TRUE)
    /\ call.by = IntBounds(Fin(-2), Fin(3), TRUE)
    /\ result = IntSetResult(<<Range(Fin(-4), Fin(4))>>)

----------------------------------------------------------------------------
(* sort_by, src/lib/builtins.cpp 1708-1758 *)

\* a new ArrayLit, together with the argument arrays as the call leaves them
ArrayResult(elems, al, order_e) ==
    [kind |-> "ArrayLit", elems |-> elems, al |-> al, order_e |-> order_e]

\* a plausible slip: <= in place of <
Ord_by_le(order, i, j) == order[i] <= order[j]

\* struct Ord of b_sort_by_*: position i goes before position j when its key
\* is strictly smaller
Ord_by(order, i, j) == order[i] < order[j]

\* std::stable_sort on the position vector a, as the insertion sort the
\* library runs on short ranges: each position moves left past the positions
\* it compares smaller than, and stops at the first it does not
RECURSIVE stable_insert(_, _, _)
stable_insert(sorted, x, order) ==
    IF sorted = <<>> THEN <<x>>
    ELSE LET n == Len(sorted)
         IN  IF Ord_by(order, x, sorted[n])
             THEN Append(stable_insert(SubSeq(sorted, 1, n - 1), x, order), sorted[n])
             ELSE Append(sorted, x)

RECURSIVE std_stable_sort(_, _, _)
std_stable_sort(a, k, order) ==
    IF k = 0 THEN <<>>
    ELSE stable_insert(std_stable_sort(a, k - 1, order), a[k], order)

\* a[i] = i; stable_sort(a); sorted[i] = al[a[i]]   (positions count from 1 here)
sort_by(al, order_e) ==
    LET a == [i \in 1..Len(order_e) |-> i]
        sa == std_stable_sort(a, Len(a), order_e)
    IN  ArrayResult([i \in 1..Len(sa) |-> al[sa[i]]], al, order_e)

b_sort_by_int(c) == sort_by(c.al, c.order_e)

b_sort_by_float(c) == sort_by(c.al, c.order_e)

\* the elements of the first argument are distinct expressions, named 1..MaxLen
ElemIds == 1..MaxLen

InjectiveSeqs(S, n) == {s \in [1..n -> S] : \A i, j \in 1..n : s[i] = s[j] => i = j}

\* sort_by is called on an array and a key array of the same length
Call_b_sort_by_int ==
    /\ ChaseIdle
    /\ \E n \in 0..MaxLen :
          \E al \in InjectiveSeqs(ElemIds, n), o \in [1..n -> Vals] :
             /\ call' = [fn |-> "b_sort_by_int", al |-> al, order_e |-> o]
             /\ result' = b_sort_by_int(call')

Call_b_sort_by_float ==
    /\ ChaseIdle
    /\ \E n \in 0..MaxLen :
          \E al \in InjectiveSeqs(ElemIds, n), o \in [1..n -> Vals] :
             /\ call' = [fn |-> "b_sort_by_float", al |-> al, order_e |-> o]
             /\ result' = b_sort_by_float(call')

----------------------------------------------------------------------------
(* sort, src/lib/builtins.cpp 1760-1782 *)

\* the base types an array handed to b_sort can have
BaseTypes == {"BT_INT", "BT_BOOL", "BT_FLOAT", "BT_STRING"}

\* struct Ord of b_sort: the comparison throws on any other base type
Ord_throws(bt) == bt \notin {"BT_INT", "BT_BOOL", "BT_FLOAT"}

\* Ord on two elements of a supported base type (false < true is 0 < 1)
Ord(e0, e1) == e0 < e1

\* std::sort as the insertion sort the library runs on short ranges
RECURSIVE sort_insert(_, _)
sort_insert(sorted, x) ==
    IF sorted = <<>> THEN <<x>>
    ELSE LET n == Len(sorted)
         IN  IF Ord(x, sorted[n])
             THEN Append(sort_insert(SubSeq(sorted, 1, n - 1), x), sorted[n])
             ELSE Append(sorted, x)

RECURSIVE std_sort(_, _)
std_sort(a, k) ==
    IF k = 0 THEN <<>> ELSE sort_insert(std_sort(a, k - 1), a[k])

\* std::sort calls the comparison only on a range of two or more elements
std_sort_compares(al) == Len(al) >= 2

b_sort(c) ==
    IF std_sort_compares(c.al) /\ Ord_throws(c.bt)
    THEN EvalError("unsupported type for sorting")
    ELSE ArrayResult(std_sort(c.al, Len(c.al)), c.al, <<>>)

\* values of an element type: booleans are 0 and 1
ValsOf(bt) == IF bt = "BT_BOOL" THEN 0..1 ELSE Vals

SortCalls ==
    UNION {{[fn |-> "b_sort", bt |-> bt, al |-> al, nested |-> FALSE] :
               al \in SeqsUpTo(ValsOf(bt), MaxLen)} : bt \in BaseTypes}

Call_b_sort ==
    /\ ChaseIdle
    /\ \E c \in SortCalls :
          /\ call' = c
          /\ result' = b_sort(c)

\* sort(sort(A)): the array a sort returned is sorted again
Call_b_sort_nested ==
    /\ call.fn = "b_sort" /\ ~call.nested
    /\ result.kind = "ArrayLit"
    /\ call' = [fn |-> "b_sort", bt |-> call.bt, al |-> result.elems, nested |-> TRUE]
    /\ result' = b_sort(call')
    /\ UNCHANGED <<pc, cur, idx, examined, env>>

NextSort ==
    \/ Call_b_sort_by_int
    \/ Call_b_sort_by_float
    \/ Call_b_sort
    \/ Call_b_sort_nested
    \/ Return

SpecSort == InitIdle /\ [][NextSort]_vars

\* the permutations of 1..n, for each array length of the model
PermsOfLen == [n \in 0..MaxLen |-> InjectiveSeqs(1..n, n)]

Perms(n) == PermsOfLen[n]

\* C6: sort_by(A, K) returns a permutation of A ordered by non-decreasing key
\* and is stable: of two positions i < j with K[i] = K[j], A[i] comes before
\* A[j] in the result; the argument arrays are left as they were.
C6_SortByStablePermutation ==
    call.fn \in {"b_sort_by_int", "b_sort_by_float"} =>
        /\ result.kind = "ArrayLit"
        /\ Len(result.elems) = Len(call.al)
        /\ \E p \in Perms(Len(call.al)) :
              /\ \A i \in 1..Len(call.al) : result.elems[i] = call.al[p[i]]
              /\ \A i, j \in 1..Len(call.al) :
                    i < j => /\ call.order_e[p[i]] <= call.order_e[p[j]]
                             /\ call.order_e[p[i]] = call.order_e[p[j]] => p[i] < p[j]
        /\ result.al = call.al
        /\ result.order_e = call.order_e

\* three elements, the first and the last with the same key and the middle
\* one with a smaller key: the middle one moved to the front, the other two
\* kept their order
C6_Witness ==
    /\ call.fn = "b_sort_by_int"
    /\ Len(call.al) = 3
    /\ call.order_e[1] = call.order_e[3]
    /\ call.order_e[2] < call.order_e[1]
    /\ result.kind = "ArrayLit"
    /\ result.elems = <<call.al[2], call.al[1], call.al[3]>>

\* C7: sort(A) over int or bool values returns a permutation of A in
\* non-decreasing order; sort(sort(A)) has the same element sequence as
\* sort(A); an element of an unsupported base type makes sort raise EvalError.
C7_SortOrdersIdempotentRejects ==
    call.fn = "b_sort" =>
        /\ call.bt \in {"BT_INT", "BT_BOOL"} =>
              /\ result.kind = "ArrayLit"
              /\ Len(result.elems) = Len(call.al)
              /\ \E p \in Perms(Len(call.al)) :
                    \A i \in 1..Len(call.al) : result.elems[i] = call.al[p[i]]
              /\ \A i, j \in 1..Len(call.al) :
                    i < j => result.elems[i] <= result.elems[j]
              /\ call.nested => result.elems = call.al
        /\ (Ord_throws(call.bt) /\ call.al # <<>>) => result.kind = "EvalError"

\* the part of C7 the code satisfies: ordering, permutation and idempotence
\* for the supported base types, and EvalError for an unsupported base type
\* once the array has two or more elements
C7_SortHoldsFromTwoElements ==
    call.fn = "b_sort" =>
        /\ ~Ord_throws(call.bt) =>
              /\ result.kind = "ArrayLit"
              /\ \E p \in Perms(Len(call.al)) :
                    \A i \in 1..Len(call.al) : result.elems[i] = call.al[p[i]]
              /\ \A i, j \in 1..Len(call.al) :
                    i < j => result.elems[i] <= result.elems[j]
              /\ call.nested => result.elems = call.al
        /\ (Ord_throws(call.bt) /\ Len(call.al) >= 2) => result.kind = "EvalError"

----------------------------------------------------------------------------
(* Expressions of the model under evaluation *)

\* An expression is a node of the AST with the nodes it points to: an
\* identifier with its declaration, a declaration with its declared domain
\* and its initializer.  par tells whether its type is par (a constant); a
\* par expression evaluates to v.
Lit(v)    == [k |-> "Lit", par |-> TRUE, v |-> v]
ParExp(v) == [k |-> "Call", par |-> TRUE, v |-> v]
VarCall   == [k |-> "Call", par |-> FALSE]
Id(decl)  == [k |-> "Id", par |-> FALSE, decl |-> decl]
SetDom    == [k |-> "SetLit", par |-> TRUE]
VarDecl(st_set, dom, e) ==
    [k |-> "VarDecl", par |-> FALSE, st_set |-> st_set, dom |-> dom, e |-> e]

\* initializers nest at most MaxDepth declarations deep
MaxDepth == 1

ExpVals == 1..MaxVal

Leaves ==
    {Lit(v) : v \in ExpVals} \cup {ParExp(v) : v \in ExpVals} \cup {VarCall, Id(NULL)}

Domains == {NULL, SetDom} \cup {Lit(v) : v \in ExpVals}

RECURSIVE Exprs(_)
Exprs(d) ==
    LET inits == IF d = 0 THEN {NULL} ELSE {NULL} \cup Exprs(d - 1)
    IN  Leaves \cup {Id(VarDecl(s, dom, e)) : s \in BOOLEAN, dom \in Domains, e \in inits}

\* eval_par: a par expression evaluates to the literal of its value; any
\* other expression is left as it is
eval_par(e) == IF e.par /\ e.k # "SetLit" THEN Lit(e.v) ELSE e

\* eval_int / eval_bool / eval_float of a par expression
eval_int(e) == e.v

----------------------------------------------------------------------------
(* exp_is_fixed and its callers, src/lib/builtins.cpp 1100-1180 *)

BoolResult(b) == [kind |-> "bool", val |-> b]
ExprResult(e) == [kind |-> "Expression", e |-> e]
FixedArrayResult(es) == [kind |-> "ArrayLit", elems |-> es]
\* b_fix_array: the elements resolved so far (std::vector fixed)
Pending(fixed) == [kind |-> "pending", fixed |-> fixed]
\* an EvalError raised at the location of element i
EvalErrorAt(m, i) == [kind |-> "EvalError", msg |-> m, at |-> i]

\* a plausible slip: the set-ness of the declaration is not looked at
chase_returns_set_too(c) ==
    IF c.k = "NULL" \/ c.par THEN TRUE
    ELSE IF c.k = "VarDecl" THEN c.dom.k = "Lit"
    ELSE c.k # "Id"

\* one turn of the for(;;) loop of exp_is_fixed at cur: the loop returns a
\* value (ret) or goes on at another expression (next)
chase_returns(c) ==
    IF c.k = "NULL" \/ c.par THEN TRUE
    ELSE IF c.k = "VarDecl" THEN ~c.st_set /\ c.dom.k = "Lit"
    ELSE c.k # "Id"

chase_ret(c) ==
    IF c.k = "NULL" THEN NULL
    ELSE IF c.par THEN c
    ELSE IF c.k = "VarDecl" THEN c.dom
    ELSE NULL

chase_next(c) == IF c.k = "Id" THEN c.decl ELSE c.e

\* a plausible slip: the declared domain is taken whatever it is
chase_returns_any_dom(c) ==
    IF c.k = "NULL" \/ c.par THEN TRUE
    ELSE IF c.k = "VarDecl" THEN c.dom.k # "NULL"
    ELSE c.k # "Id"

\* the loop goes on: cur = decl() of an identifier, or e() of a declaration
exp_is_fixed_continue ==
    /\ pc = "chase"
    /\ ~chase_returns(cur)
    /\ cur' = chase_next(cur)
    /\ UNCHANGED <<call, result, pc, idx, examined, env>>

\* b_is_fixed: exp_is_fixed(arg) != NULL
b_is_fixed(ret) == BoolResult(ret # NULL)

\* a plausible slip: fix answers a default literal instead of raising
b_fix_no_throw(ret) == ExprResult(IF ret = NULL THEN Lit(1) ELSE ret)

\* b_fix: throws when exp_is_fixed answered NULL, else returns its answer
b_fix(ret) ==
    IF ret = NULL THEN EvalError("expression is not fixed") ELSE ExprResult(ret)

\* b_fix_int: eval_int(env, b_fix(env, call))
b_fix_int(ret) ==
    IF b_fix(ret).kind = "EvalError" THEN b_fix(ret) ELSE IntResult(eval_int(b_fix(ret).e))

\* the callers enter exp_is_fixed: cur = eval_par(env, e)
Call_b_is_fixed ==
    /\ call = NoCall
    /\ pc = "idle"
    /\ call' = [fn |-> "b_is_fixed", arg |-> env.e]
    /\ cur' = eval_par(env.e)
    /\ pc' = "chase"
    /\ UNCHANGED <<result, idx, examined, env>>

Call_b_fix ==
    /\ call = NoCall
    /\ pc = "idle"
    /\ call' = [fn |-> "b_fix", arg |-> env.e]
    /\ cur' = eval_par(env.e)
    /\ pc' = "chase"
    /\ UNCHANGED <<result, idx, examined, env>>

Call_b_fix_int ==
    /\ call = NoCall
    /\ pc = "idle"
    /\ call' = [fn |-> "b_fix_int", arg |-> env.e]
    /\ cur' = eval_par(env.e)
    /\ pc' = "chase"
    /\ UNCHANGED <<result, idx, examined, env>>

\* exp_is_fixed returns to its scalar caller, which finishes
Return_b_is_fixed ==
    /\ pc = "chase"
    /\ call.fn = "b_is_fixed"
    /\ chase_returns(cur)
    /\ result' = b_is_fixed(chase_ret(cur))
    /\ pc' = "done"
    /\ UNCHANGED <<call, cur, idx, examined, env>>

Return_b_fix ==
    /\ pc = "chase"
    /\ call.fn = "b_fix"
    /\ chase_returns(cur)
    /\ result' = b_fix(chase_ret(cur))
    /\ pc' = "done"
    /\ UNCHANGED <<call, cur, idx, examined, env>>

Return_b_fix_int ==
    /\ pc = "chase"
    /\ call.fn = "b_fix_int"
    /\ chase_returns(cur)
    /\ result' = b_fix_int(chase_ret(cur))
    /\ pc' = "done"
    /\ UNCHANGED <<call, cur, idx, examined, env>>

\* the caller takes the result and keeps it beside the expression it asked about
Return_logged ==
    /\ pc = "done"
    /\ env' = [env EXCEPT !.log = [env.log EXCEPT ![call.fn] = result]]
    /\ call' = NoCall
    /\ result' = NoResult
    /\ pc' = "idle"
    /\ cur' = NULL
    /\ idx' = 0
    /\ examined' = <<>>

NoLog ==
    [b_is_fixed |-> NoResult, b_fix |-> NoResult, b_fix_int |-> NoResult,
     b_is_fixed_array |-> NoResult, b_fix_array |-> NoResult]

InitFix ==
    /\ call = NoCall
    /\ result = NoResult
    /\ pc = "idle"
    /\ cur = NULL
    /\ idx = 0
    /\ examined = <<>>
    /\ \E e \in Exprs(MaxDepth) : env = [e |-> e, al |-> <<>>, log |-> NoLog]

NextFix ==
    \/ Call_b_is_fixed
    \/ Call_b_fix
    \/ Call_b_fix_int
    \/ exp_is_fixed_continue
    \/ Return_b_is_fixed
    \/ Return_b_fix
    \/ Return_b_fix_int
    \/ Return_logged

SpecFix == InitFix /\ [][NextFix]_vars

\* C8: is_fixed and fix agree on every expression e: when is_fixed(e) is
\* false, fix(e) raises EvalError "expression is not fixed"; when it is true,
\* fix(e) raises nothing and returns a constant; and for a statically
\* constant e, fix(e) evaluates to the value of e.
C8_FixAgreesWithIsFixed ==
    /\ (env.log.b_is_fixed = BoolResult(FALSE) /\ env.log.b_fix # NoResult) =>
          env.log.b_fix = EvalError("expression is not fixed")
    /\ (env.log.b_is_fixed = BoolResult(FALSE) /\ env.log.b_fix_int # NoResult) =>
          env.log.b_fix_int = EvalError("expression is not fixed")
    /\ (env.log.b_is_fixed = BoolResult(TRUE) /\ env.log.b_fix # NoResult) =>
          /\ env.log.b_fix.kind = "Expression"
          /\ env.log.b_fix.e.par
          /\ env.log.b_fix.e.k \in {"Lit", "Call"}
    /\ (env.log.b_is_fixed = BoolResult(TRUE) /\ env.log.b_fix_int # NoResult) =>
          env.log.b_fix_int.kind = "IntVal"
    /\ (env.e.par /\ env.log.b_fix # NoResult) =>
          /\ env.log.b_fix.kind = "Expression"
          /\ eval_int(env.log.b_fix.e) = eval_int(env.e)
    /\ (env.e.par /\ env.log.b_fix_int # NoResult) =>
          env.log.b_fix_int = IntResult(eval_int(env.e))

\* is_fixed answered false and fix raised, on an identifier whose declaration
\* has a set for domain and an initializer that is an identifier with no
\* initializer
C8_Witness ==
    /\ env.e.k = "Id" /\ env.e.decl.k = "VarDecl"
    /\ env.e.decl.dom = SetDom
    /\ env.e.decl.e.k = "Id"
    /\ env.log.b_is_fixed = BoolResult(FALSE)
    /\ env.log.b_fix = EvalError("expression is not fixed")

----------------------------------------------------------------------------
(* is_fixed_array and fix_array, src/lib/builtins.cpp 1131-1142, 1165-1180 *)

\* arrays handed to is_fixed_array / fix_array hold at most MaxFixLen elements
MaxFixLen == 2

\* b_is_fixed_array after exp_is_fixed answered ret for element i of al:
\* false at an unfixed element, true after the last one, else the loop goes on
b_is_fixed_array_after(al, i, fixed, ret) ==
    IF ret = NULL THEN BoolResult(FALSE)
    ELSE IF i = Len(al) THEN BoolResult(TRUE)
    ELSE Pending(fixed)

\* a plausible slip: the loop does not stop at an unfixed element
b_fix_array_after_no_stop(al, i, fixed, ret) ==
    IF i = Len(al) THEN FixedArrayResult(Append(fixed, ret))
    ELSE Pending(Append(fixed, ret))

\* b_fix_array after exp_is_fixed answered ret for element i of al: it
\* throws at an unfixed element, keeps the answer in fixed[i] otherwise, and
\* builds the array after the last element
b_fix_array_after(al, i, fixed, ret) ==
    IF ret = NULL THEN EvalErrorAt("expression is not fixed", i)
    ELSE IF i = Len(al) THEN FixedArrayResult(Append(fixed, ret))
    ELSE Pending(Append(fixed, ret))

Call_b_is_fixed_array ==
    /\ call = NoCall
    /\ pc = "idle"
    /\ call' = [fn |-> "b_is_fixed_array", arg |-> env.al]
    /\ IF Len(env.al) = 0
       THEN /\ result' = BoolResult(TRUE)
            /\ pc' = "done"
            /\ UNCHANGED <<cur, idx, examined>>
       ELSE /\ result' = Pending(<<>>)
            /\ idx' = 1
            /\ examined' = <<1>>
            /\ cur' = eval_par(env.al[1])
            /\ pc' = "chase"
    /\ UNCHANGED env

Call_b_fix_array ==
    /\ call = NoCall
    /\ pc = "idle"
    /\ call' = [fn |-> "b_fix_array", arg |-> env.al]
    /\ IF Len(env.al) = 0
       THEN /\ result' = FixedArrayResult(<<>>)
            /\ pc' = "done"
            /\ UNCHANGED <<cur, idx, examined>>
       ELSE /\ result' = Pending(<<>>)
            /\ idx' = 1
            /\ examined' = <<1>>
            /\ cur' = eval_par(env.al[1])
            /\ pc' = "chase"
    /\ UNCHANGED env

\* exp_is_fixed returns to the loop of its array caller, which finishes or
\* hands the next element to exp_is_fixed
Return_b_is_fixed_array ==
    /\ pc = "chase"
    /\ call.fn = "b_is_fixed_array"
    /\ chase_returns(cur)
    /\ result' = b_is_fixed_array_after(call.arg, idx, result.fixed, chase_ret(cur))
    /\ IF result'.kind = "pending"
       THEN /\ idx' = idx + 1
            /\ examined' = Append(examined, idx + 1)
            /\ cur' = eval_par(call.arg[idx + 1])
            /\ pc' = "chase"
       ELSE /\ pc' = "done"
            /\ UNCHANGED <<cur, idx, examined>>
    /\ UNCHANGED <<call, env>>

Return_b_fix_array ==
    /\ pc = "chase"
    /\ call.fn = "b_fix_array"
    /\ chase_returns(cur)
    /\ result' = b_fix_array_after(call.arg, idx, result.fixed, chase_ret(cur))
    /\ IF result'.kind = "pending"
       THEN /\ idx' = idx + 1
            /\ examined' = Append(examined, idx + 1)
            /\ cur' = eval_par(call.arg[idx + 1])
            /\ pc' = "chase"
       ELSE /\ pc' = "done"
            /\ UNCHANGED <<cur, idx, examined>>
    /\ UNCHANGED <<call, env>>

\* the elements of the arrays: every expression without a nested initializer
ArrElems == Exprs(0)

InitFixArray ==
    /\ call = NoCall
    /\ result = NoResult
    /\ pc = "idle"
    /\ cur = NULL
    /\ idx = 0
    /\ examined = <<>>
    /\ \E al \in SeqsUpTo(ArrElems, MaxFixLen) : env = [e |-> NULL, al |-> al, log |-> NoLog]

NextFixArray ==
    \/ Call_b_is_fixed_array
    \/ Call_b_fix_array
    \/ exp_is_fixed_continue
    \/ Return_b_is_fixed_array
    \/ Return_b_fix_array
    \/ Return_logged

SpecFixArray == InitFixArray /\ [][NextFixArray]_vars

\* Whether an expression is fixed, and its constant if it is, read off the
\* expression: a constant is fixed; an identifier is fixed when its non-set
\* declaration has a literal for domain, or else when its initializer is.
Unfixed == [fixed |-> FALSE]
FixedTo(v) == [fixed |-> TRUE, v |-> v]

RECURSIVE FixedVal(_)
FixedVal(e) ==
    IF e.k = "NULL" THEN Unfixed
    ELSE IF e.par THEN FixedTo(e.v)
    ELSE IF e.k = "Id" THEN FixedVal(e.decl)
    ELSE IF e.k = "VarDecl"
         THEN IF ~e.st_set /\ e.dom.k = "Lit" THEN FixedTo(e.dom.v) ELSE FixedVal(e.e)
    ELSE Unfixed

UnfixedAt(al) == {i \in 1..Len(al) : ~FixedVal(al[i]).fixed}
FirstOf(S) == CHOOSE i \in S : \A j \in S : i <= j
UpTo(n) == [i \in 1..n |-> i]

\* C9: fix_array and is_fixed_array examine the elements in ascending index
\* order and stop at the first unfixed one: fix_array raises EvalError
\* "expression is not fixed" for the lowest-index unfixed element and
\* otherwise returns the array of the resolved constants, of the same
\* length; is_fixed_array is true exactly when every element is fixed (true
\* for the empty array).
C9_ArraysStopAtFirstUnfixed ==
    /\ examined = UpTo(Len(examined))
    /\ (pc = "done" /\ call.fn = "b_fix_array") =>
          IF UnfixedAt(call.arg) = {}
          THEN /\ result.kind = "ArrayLit"
               /\ Len(result.elems) = Len(call.arg)
               /\ \A i \in 1..Len(call.arg) :
                     /\ result.elems[i].par
                     /\ eval_int(result.elems[i]) = FixedVal(call.arg[i]).v
               /\ examined = UpTo(Len(call.arg))
          ELSE /\ result = EvalErrorAt("expression is not fixed", FirstOf(UnfixedAt(call.arg)))
               /\ examined = UpTo(FirstOf(UnfixedAt(call.arg)))
    /\ (pc = "done" /\ call.fn = "b_is_fixed_array") =>
          /\ result = BoolResult(UnfixedAt(call.arg) = {})
          /\ examined = UpTo(IF UnfixedAt(call.arg) = {} THEN Len(call.arg)
                             ELSE FirstOf(UnfixedAt(call.arg)))

\* fix_array raised at the first of two elements, an identifier whose
\* declaration has neither a literal domain nor an initializer, and never
\* looked at the second
C9_Witness ==
    /\ pc = "done" /\ call.fn = "b_fix_array"
    /\ Len(call.arg) = 2
    /\ call.arg[1].k = "Id" /\ call.arg[1].decl.k = "VarDecl"
    /\ result = EvalErrorAt("expression is not fixed", 1)
    /\ examined = <<1>>

----------------------------------------------------------------------------
(* index_set, src/lib/builtins.cpp 612-683 *)

\* arrays have at most MaxDims axes
MaxDims == 2

\* (min, max) of one axis of a materialized array; (1, 0) is the empty axis
Extent(a, b) == [min |-> a, max |-> b]
AxisExtents == {Extent(1, 0), Extent(1, 3), Extent(0, 1)}

\* the declared index set of one axis, ti()->ranges()[k]->domain(): none,
\* a type-inst variable ($T), or a set expression with its value
NoDomain == [dom |-> "NULL"]
TIIdDomain == [dom |-> "TIId"]
SetDomain(isv) == [dom |-> "Set", isv |-> isv]
AxisDomains ==
    {NoDomain, TIIdDomain, SetDomain(IntSetVal_a(1, 2)), SetDomain(IntSetVal_a(2, 3))}

SeqsOfLen(S, n) == {s \in SeqsUpTo(S, n) : Len(s) = n}

\* an array expression that is no identifier, with the array it evaluates to
ArrayExp(dims) == [k |-> "ArrayLit", dims |-> dims]
\* an identifier; its declaration has the declared index sets (ranges) and
\* the array the identifier evaluates to
ArrayId(decl) == [k |-> "Id", decl |-> decl]
ArrayDecl(ranges, dims) == [k |-> "VarDecl", ranges |-> ranges, dims |-> dims]

\* the declaration of a type-checked array has one declared index set per
\* axis, or the single index set $T that stands for any number of axes
ArrayDecls ==
    UNION {{ArrayDecl(r, d) : r \in SeqsOfLen(AxisDomains, n), d \in SeqsOfLen(AxisExtents, n)}
              : n \in 1..MaxDims}
    \cup {ArrayDecl(<<TIIdDomain>>, d) : d \in SeqsUpTo(AxisExtents, MaxDims) \ {<<>>}}

ArrayArgs ==
    {ArrayExp(d) : d \in SeqsUpTo(AxisExtents, MaxDims) \ {<<>>}}
    \cup {ArrayId(NULL)}
    \cup {ArrayId(decl) : decl \in ArrayDecls}

\* IntSetVal::a(al->min(i-1), al->max(i-1)), or the error for a missing axis
materialized_index_set(dims, i) ==
    IF Len(dims) < i THEN EvalError("index_set: wrong dimension")
    ELSE IntSetResult(IntSetVal_a(dims[i].min, dims[i].max))

\* the condition under which b_index_set evaluates the identifier
uses_materialized(ranges, i) ==
    \/ /\ Len(ranges) = 1
       /\ ranges[1].dom = "TIId"
    \/ /\ Len(ranges) >= i
       /\ ranges[i].dom \in {"NULL", "TIId"}

\* a plausible slip: the declared index set is never used
b_index_set_always_materialized(e, i) ==
    IF e.k # "Id" THEN materialized_index_set(e.dims, i)
    ELSE IF e.decl.k = "NULL" THEN EvalError("undefined identifier")
    ELSE materialized_index_set(e.decl.dims, i)

b_index_set(e, i) ==
    IF e.k # "Id" THEN materialized_index_set(e.dims, i)
    ELSE IF e.decl.k = "NULL" THEN EvalError("undefined identifier")
    ELSE IF uses_materialized(e.decl.ranges, i)
         THEN materialized_index_set(e.decl.dims, i)
    ELSE IF Len(e.decl.ranges) < i THEN EvalError("index_set: wrong dimension")
    ELSE IntSetResult(e.decl.ranges[i].isv)

\* b_index_set1 .. b_index_set6: index_set_KofN is b_index_set(arg, K)
b_index_setK(c) ==
    IF c.n_args # 1 THEN EvalError("index_set needs exactly one argument")
    ELSE b_index_set(c.e, c.i)

Call_b_index_setK ==
    /\ ChaseIdle
    /\ \E e \in ArrayArgs, i \in 1..(MaxDims + 1), n \in 1..2 :
          /\ call' = [fn |-> "b_index_setK", n_args |-> n, e |-> e, i |-> i]
          /\ result' = b_index_setK(call')

NextIndexSet ==
    \/ Call_b_index_setK
    \/ Return

SpecIndexSet == InitIdle /\ [][NextIndexSet]_vars

\* a call of index_set_KofN with its one argument, an array expression or a
\* declared identifier
IndexSetCall ==
    /\ call.fn = "b_index_setK"
    /\ call.n_args = 1
    /\ call.e.k = "Id" => call.e.decl.k = "VarDecl"

\* axis K of the identifier has a declared index set that is not generic
HasDeclaredIndexSet(e, i) ==
    /\ e.k = "Id"
    /\ Len(e.decl.ranges) >= i
    /\ e.decl.ranges[i].dom = "Set"

\* the array the argument evaluates to
Materialized(e) == IF e.k = "Id" THEN e.decl.dims ELSE e.dims

\* C10: index_set_KofN(x) returns the declared index set of axis K when x is
\* an identifier whose axis K has a non-generic declared index set, and
\* otherwise min..max of axis K of the materialized array; an axis K beyond
\* the number of axes raises EvalError.  index_set of a 1-based 3-element
\* array literal is {1,2,3}.
C10_IndexSetDeclaredElseMaterialized ==
    IndexSetCall =>
        /\ Len(Materialized(call.e)) < call.i => result.kind = "EvalError"
        /\ (Len(Materialized(call.e)) >= call.i /\ HasDeclaredIndexSet(call.e, call.i)) =>
              result = IntSetResult(call.e.decl.ranges[call.i].isv)
        /\ (Len(Materialized(call.e)) >= call.i /\ ~HasDeclaredIndexSet(call.e, call.i)) =>
              result = IntSetResult(IntSetVal_a(Materialized(call.e)[call.i].min,
                                                Materialized(call.e)[call.i].max))
        /\ (call.e = ArrayExp(<<Extent(1, 3)>>) /\ call.i = 1) =>
              result = IntSetResult(<<Range(Fin(1), Fin(3))>>)

\* the second axis of an identifier is declared 2..3 while the array it
\* evaluates to runs over 1..3 there: the declared set is returned
C10_Witness ==
    /\ IndexSetCall
    /\ call.i = 2
    /\ call.e.k = "Id"
    /\ Len(call.e.decl.ranges) = 2
    /\ call.e.decl.ranges[2] = SetDomain(IntSetVal_a(2, 3))
    /\ call.e.decl.dims[2] = Extent(1, 3)
    /\ result = IntSetResult(<<Range(Fin(2), Fin(3))>>)

----------------------------------------------------------------------------
(* showJSON, src/lib/builtins.cpp 1323-1423 *)

\* arrays handed to showJSON have at most MaxShowDims axes, each of at most
\* MaxExtent indices
MaxShowDims == 3
MaxExtent == 3

ShowExtents == {Extent(1, n) : n \in 0..MaxExtent} \cup {Extent(0, 1)}

\* al->max(k) - al->min(k) + 1
extent_of(x) == x.max - x.min + 1

\* al->size(): the elements of a rectangular array
RECURSIVE al_size(_)
al_size(dims) ==
    IF dims = <<>> THEN 1 ELSE extent_of(Head(dims)) * al_size(Tail(dims))

\* the output stream of a builtin that prints
StringResult(toks) == [kind |-> "String", str |-> toks]

\* a plausible slip: the strides are built from the first axes
RECURSIVE stride_from_front(_, _)
stride_from_front(dims, k) ==
    IF k = 1 THEN extent_of(dims[1])
    ELSE stride_from_front(dims, k - 1) * extent_of(dims[k])

\* std::vector<unsigned int> dims of b_show_json: entry k (from 1) is the
\* product of the extents of the last k axes
RECURSIVE stride(_, _)
stride(dims, k) ==
    IF k = 1 THEN extent_of(dims[Len(dims)])
    ELSE stride(dims, k - 1) * extent_of(dims[Len(dims) - k + 1])

\* the brackets printed before and after element i
Brackets(n, b) == [x \in 1..n |-> b]
opening(dims, i) ==
    Brackets(Cardinality({j \in 1..(Len(dims) - 1) : i % stride(dims, j) = 0}), "[")
closing(dims, i) ==
    Brackets(Cardinality({j \in 1..(Len(dims) - 1) :
                              i % stride(dims, j) = stride(dims, j) - 1}), "]")

\* b_show_json_basic of element i: the element's own text
b_show_json_basic(i) == <<ToString(i)>>

ShowArgs ==
    {ArrayExp(d) : d \in SeqsUpTo(ShowExtents, MaxShowDims) \ {<<>>}}
    \cup {ParExp(v) : v \in ExpVals} \cup {VarCall}

\* b_show_json up to the loop: a var expression or a par non-array is printed
\* at once, an array opens the outer bracket
Call_b_show_json ==
    /\ call = NoCall
    /\ pc = "idle"
    /\ \E e \in ShowArgs :
          /\ call' = [fn |-> "b_show_json", e |-> e]
          /\ IF e.k = "ArrayLit"
             THEN /\ result' = StringResult(<<"[">>)
                  /\ pc' = "show_json"
             ELSE /\ result' = StringResult(<<e.k>>)
                  /\ pc' = "done"
    /\ idx' = 0
    /\ UNCHANGED <<cur, examined, env>>

\* one turn of the loop over the elements
b_show_json_element ==
    /\ pc = "show_json"
    /\ idx < al_size(call.e.dims)
    /\ result' = StringResult(
          result.str \o opening(call.e.dims, idx) \o b_show_json_basic(idx)
             \o closing(call.e.dims, idx)
             \o (IF idx < al_size(call.e.dims) - 1 THEN <<", ">> ELSE <<>>))
    /\ idx' = idx + 1
    /\ UNCHANGED <<call, pc, cur, examined, env>>

\* after the loop: the outer bracket closes
b_show_json_return ==
    /\ pc = "show_json"
    /\ idx >= al_size(call.e.dims)
    /\ result' = StringResult(Append(result.str, "]"))
    /\ pc' = "done"
    /\ UNCHANGED <<call, idx, cur, examined, env>>

NextShowJSON ==
    \/ Call_b_show_json
    \/ b_show_json_element
    \/ b_show_json_return
    \/ Return

SpecShowJSON == InitIdle /\ [][NextShowJSON]_vars

\* the properly nested rendering: an array of N axes is a bracket pair around
\* the renderings of its slices along the first axis, separated by commas
RECURSIVE Nested(_, _)
RECURSIVE NestedSlices(_, _, _)
Nested(dims, first) ==
    IF dims = <<>> THEN <<ToString(first)>>
    ELSE <<"[">> \o NestedSlices(dims, first, 0) \o <<"]">>
NestedSlices(dims, first, j) ==
    IF j >= extent_of(Head(dims)) THEN <<>>
    ELSE Nested(Tail(dims), first + j * al_size(Tail(dims)))
           \o (IF j < extent_of(Head(dims)) - 1 THEN <<", ">> ELSE <<>>)
           \o NestedSlices(dims, first, j + 1)

\* bracket depth after the first n tokens
RECURSIVE Depth(_, _)
Depth(toks, n) ==
    IF n = 0 THEN 0
    ELSE Depth(toks, n - 1)
           + (IF toks[n] = "[" THEN 1 ELSE IF toks[n] = "]" THEN -1 ELSE 0)

ShownArray ==
    /\ call.fn = "b_show_json"
    /\ pc = "done"
    /\ call.e.k = "ArrayLit"
    /\ \A k \in 1..Len(call.e.dims) : extent_of(call.e.dims[k]) >= 1

\* C11: showJSON of a constant array of N >= 1 non-empty axes prints properly
\* nested brackets: the output is the nested rendering of the flat row-major
\* elements, brackets are balanced, depth never goes negative and every
\* element is printed at depth N.
C11_ShowJSONProperlyNested ==
    ShownArray =>
       /\ result.str = Nested(call.e.dims, 0)
       /\ Depth(result.str, Len(result.str)) = 0
       /\ \A n \in 1..Len(result.str) :
             /\ Depth(result.str, n) >= 0
             /\ result.str[n] \notin {"[", "]", ", "} =>
                   Depth(result.str, n) = Len(call.e.dims)

\* a 2x3 array was printed
C11_Witness ==
    /\ ShownArray
    /\ call.e.dims = <<Extent(1, 2), Extent(1, 3)>>
    /\ result.str = <<"[", "[", "0", ", ", "1", ", ", "2", "]", ", ",
                      "[", "3", ", ", "4", ", ", "5", "]", "]">>

----------------------------------------------------------------------------
(* format, format_justify_string, src/lib/builtins.cpp 1470-1561 *)

\* texts have at most MaxStrLen characters, widths range over
\* -MaxWidth..MaxWidth
MaxStrLen == 3
MaxWidth == 5

Chars == {"a", "b"}
Strings == SeqsUpTo(Chars, MaxStrLen)
Widths == (-MaxWidth)..MaxWidth
Precs == (-1)..(MaxStrLen - 1)

Spaces(n) == [x \in 1..n |-> " "]
std_abs(x) == IF x < 0 THEN -x ELSE x

\* a string literal, and eval_string of it
StringLit(s) == [k |-> "StringLit", par |-> TRUE, v |-> s]
eval_string(e) == e.v

\* show(env, e): the text the printer gives the expression; a string literal
\* is printed between double quotes
show(e) == <<"\"">> \o e.v \o <<"\"">>

\* the decimal text operator<< gives a small integer
int_text(i) == IF i < 0 THEN <<"-", ToString(-i)>> ELSE <<ToString(i)>>

\* an output stream with a field width: a shorter text is filled with spaces
\* on the left, or on the right under std::ios::left; a longer one is written
\* whole
ostream_width(width, txt) ==
    IF width > 0
    THEN Spaces(IF width > Len(txt) THEN width - Len(txt) ELSE 0) \o txt
    ELSE IF width < 0
    THEN txt \o Spaces(IF -width > Len(txt) THEN -width - Len(txt) ELSE 0)
    ELSE txt

\* the justification shared by b_format (text branch) and
\* b_format_justify_string
justify(width, s) ==
    IF Len(s) < std_abs(width)
    THEN LET addLeft0  == IF width < 0 THEN 0 ELSE width - Len(s)
             addLeft   == IF addLeft0 < 0 THEN 0 ELSE addLeft0
             addRight0 == IF width < 0 THEN -width - Len(s) ELSE 0
             addRight  == IF addRight0 < 0 THEN 0 ELSE addRight0
         IN  Spaces(addLeft) \o s \o Spaces(addRight)
    ELSE s

b_format_justify_string(c) == StringResult(justify(c.width, eval_string(c.e)))

\* b_format: one, two or three arguments; an integer goes through the stream,
\* any other text is cut to the precision and justified
b_format(c) ==
    IF c.nargs = 3 /\ c.prec < 0
    THEN EvalError("output precision cannot be negative")
    ELSE LET width == IF c.nargs > 1 THEN c.width ELSE 0
             prec  == IF c.nargs = 3 THEN c.prec ELSE -1
         IN  IF c.e.k = "Lit"
             THEN StringResult(ostream_width(width, int_text(eval_int(c.e))))
             ELSE LET s0 == show(c.e)
                      s  == IF prec >= 0 /\ prec < Len(s0)
                            THEN SubSeq(s0, 1, prec) ELSE s0
                  IN  StringResult(justify(width, s))

FormatExprs == {StringLit(s) : s \in Strings} \cup {Lit(v) : v \in Vals}

Call_b_format_justify_string ==
    /\ ChaseIdle
    /\ \E w \in Widths, s \in Strings :
          LET c == [fn |-> "b_format_justify_string", nargs |-> 2,
                    width |-> w, prec |-> -1, e |-> StringLit(s)]
          IN  call' = c /\ result' = b_format_justify_string(c)

Call_b_format ==
    /\ ChaseIdle
    /\ \E n \in 1..3, w \in Widths, p \in Precs, e \in FormatExprs :
          LET c == [fn |-> "b_format", nargs |-> n,
                    width |-> IF n > 1 THEN w ELSE 0,
                    prec |-> IF n = 3 THEN p ELSE -1, e |-> e]
          IN  call' = c /\ result' = b_format(c)

NextFormat ==
    \/ Call_b_format_justify_string
    \/ Call_b_format
    \/ Return

SpecFormat == InitIdle /\ [][NextFormat]_vars

\* format_justify_string(w, s), or format(w, e) on a text
FitsText ==
    /\ call.fn \in {"b_format_justify_string", "b_format"}
    /\ call.nargs = 2
    /\ call.e.k = "StringLit"

\* the text that is fitted
FittedText ==
    IF call.fn = "b_format" THEN show(call.e) ELSE eval_string(call.e)

\* C12: for w # 0 the result of format_justify_string(w, s) and of
\* format(w, e) on non-numeric text has exactly |w| columns: padded with
\* spaces on the left when w > 0, on the right when w < 0, and truncated when
\* the text is longer than |w|.
C12_FormatFitsWidth ==
    (FitsText /\ call.width # 0) =>
       /\ Len(result.str) = std_abs(call.width)
       /\ Len(FittedText) <= std_abs(call.width) =>
             result.str =
                IF call.width > 0
                THEN Spaces(call.width - Len(FittedText)) \o FittedText
                ELSE FittedText \o Spaces(-call.width - Len(FittedText))

\* what holds of the width: a text shorter than |w| is padded to |w| columns
\* on the side the sign of w names, any other text is returned whole
C12_FormatPadsNeverTruncates ==
    FitsText =>
       result.str =
          IF Len(FittedText) >= std_abs(call.width) THEN FittedText
          ELSE IF call.width > 0
               THEN Spaces(call.width - Len(FittedText)) \o FittedText
               ELSE FittedText \o Spaces(-call.width - Len(FittedText))

----------------------------------------------------------------------------
(* Sampling builtins, src/lib/builtins.cpp 1784-1938 *)

\* the shared engine is drawn from at most MaxDraws times
MaxDraws == 3

\* rnd_generator(): the one static engine; its state is the number of draws
\* made from it
rnd_generator(g) == [g |-> g]

\* what a sampling builtin leaves: its value or error, and the engine
Outcome(res, g) == [res |-> res, g |-> g]

\* distribution(rnd_generator()): one of the values of the distribution's
\* support, and the engine has advanced
Draw(samples, g) ==
    IF g < MaxDraws THEN {Outcome(v, g + 1) : v \in samples} ELSE {}

IntSamples(support) == {IntResult(v) : v \in support}
FloatSamples(support) == {FloatResult(v) : v \in support}

UniformError ==
    EvalError("lowerbound of uniform distribution is higher than its upperbound")
ShapeError ==
    EvalError("The shape factor for the weibull distribution has to be greater than zero.")
ScaleError ==
    EvalError("The scale factor for the weibull distribution has to be greater than zero.")
LambdaError ==
    EvalError("The lambda-parameter for the exponential distribution function has to be greater than zero.")

\* a plausible slip: the sample is drawn before the bounds are compared
b_uniform_int_draws_first(c, g) ==
    IF c.lb > c.ub THEN {Outcome(UniformError, g + 1)}
    ELSE Draw(IntSamples(c.lb..c.ub), g)

b_uniform_int(c, g) ==
    IF c.lb > c.ub THEN {Outcome(UniformError, g)}
    ELSE Draw(IntSamples(c.lb..c.ub), g)

b_uniform_float(c, g) ==
    IF c.lb > c.ub THEN {Outcome(UniformError, g)}
    ELSE Draw(FloatSamples(c.lb..c.ub), g)

weibull(c, g) ==
    IF c.shape < 0 THEN {Outcome(ShapeError, g)}
    ELSE IF c.scale < 0 THEN {Outcome(ScaleError, g)}
    ELSE Draw(FloatSamples(0..MaxVal), g)

b_weibull_int_float(c, g) == weibull(c, g)
b_weibull_float_float(c, g) == weibull(c, g)

exponential(c, g) ==
    IF c.lambda < 0 THEN {Outcome(LambdaError, g)}
    ELSE Draw(FloatSamples(0..MaxVal), g)

b_exponential_float(c, g) == exponential(c, g)
b_exponential_int(c, g) == exponential(c, g)

\* a sampling builtin runs in one step on the engine as it stands
Call_b_uniform_int ==
    /\ call = NoCall
    /\ pc = "idle"
    /\ \E lb \in Vals, ub \in Vals :
          LET c == [fn |-> "b_uniform_int", lb |-> lb, ub |-> ub]
          IN  \E o \in b_uniform_int(c, env.g) :
                 /\ call' = c
                 /\ result' = o.res
                 /\ env' = rnd_generator(o.g)
    /\ UNCHANGED <<pc, cur, idx, examined>>

Call_b_uniform_float ==
    /\ call = NoCall
    /\ pc = "idle"
    /\ \E lb \in Vals, ub \in Vals :
          LET c == [fn |-> "b_uniform_float", lb |-> lb, ub |-> ub]
          IN  \E o \in b_uniform_float(c, env.g) :
                 /\ call' = c
                 /\ result' = o.res
                 /\ env' = rnd_generator(o.g)
    /\ UNCHANGED <<pc, cur, idx, examined>>

Call_b_weibull_int_float ==
    /\ call = NoCall
    /\ pc = "idle"
    /\ \E shape \in Vals, scale \in Vals :
          LET c == [fn |-> "b_weibull_int_float", shape |-> shape, scale |-> scale]
          IN  \E o \in b_weibull_int_float(c, env.g) :
                 /\ call' = c
                 /\ result' = o.res
                 /\ env' = rnd_generator(o.g)
    /\ UNCHANGED <<pc, cur, idx, examined>>

Call_b_weibull_float_float ==
    /\ call = NoCall
    /\ pc = "idle"
    /\ \E shape \in Vals, scale \in Vals :
          LET c == [fn |-> "b_weibull_float_float", shape |-> shape, scale |-> scale]
          IN  \E o \in b_weibull_float_float(c, env.g) :
                 /\ call' = c
                 /\ result' = o.res
                 /\ env' = rnd_generator(o.g)
    /\ UNCHANGED <<pc, cur, idx, examined>>

Call_b_exponential_float ==
    /\ call = NoCall
    /\ pc = "idle"
    /\ \E lambda \in Vals :
          LET c == [fn |-> "b_exponential_float", lambda |-> lambda]
          IN  \E o \in b_exponential_float(c, env.g) :
                 /\ call' = c
                 /\ result' = o.res
                 /\ env' = rnd_generator(o.g)
    /\ UNCHANGED <<pc, cur, idx, examined>>

Call_b_exponential_int ==
    /\ call = NoCall
    /\ pc = "idle"
    /\ \E lambda \in Vals :
          LET c == [fn |-> "b_exponential_int", lambda |-> lambda]
          IN  \E o \in b_exponential_int(c, env.g) :
                 /\ call' = c
                 /\ result' = o.res
                 /\ env' = rnd_generator(o.g)
    /\ UNCHANGED <<pc, cur, idx, examined>>

InitSampling ==
    /\ call = NoCall
    /\ result = NoResult
    /\ pc = "idle"
    /\ cur = NULL
    /\ idx = 0
    /\ examined = <<>>
    /\ env = rnd_generator(0)

\* std::discrete_distribution over the weights: the 0-based positions of
\* positive weight; 0 alone when there are no weights; any position when the
\* weights sum to zero (the distribution's requirement is not met)
discrete_support(weights) ==
    IF weights = <<>> THEN {0}
    ELSE IF \A i \in 1..Len(weights) : weights[i] = 0
    THEN 0..(Len(weights) - 1)
    ELSE {i - 1 : i \in {j \in 1..Len(weights) : weights[j] > 0}}

DimsError ==
    EvalError("expecting 1-dimensional array of weights for discrete distribution")

\* b_discrete_distribution: IntVal(distribution(rnd_generator()))
b_discrete_distribution(c, g) ==
    IF c.dims # 1 THEN {Outcome(DimsError, g)}
    ELSE Draw(IntSamples(discrete_support(c.al)), g)

WeightArrays == SeqsUpTo(0..MaxVal, MaxLen)

Call_b_discrete_distribution ==
    /\ call = NoCall
    /\ pc = "idle"
    /\ \E al \in WeightArrays, d \in 1..2 :
          LET c == [fn |-> "b_discrete_distribution", al |-> al, dims |-> d]
          IN  \E o \in b_discrete_distribution(c, env.g) :
                 /\ call' = c
                 /\ result' = o.res
                 /\ env' = rnd_generator(o.g)
    /\ UNCHANGED <<pc, cur, idx, examined>>

NextSampling ==
    \/ Call_b_uniform_int
    \/ Call_b_uniform_float
    \/ Call_b_weibull_int_float
    \/ Call_b_weibull_float_float
    \/ Call_b_exponential_float
    \/ Call_b_exponential_int
    \/ Call_b_discrete_distribution
    \/ Return

SpecSampling == InitSampling /\ [][NextSampling]_vars

\* the call is outside the domain of its distribution
OutOfDomain(c) ==
    \/ c.fn \in {"b_uniform_int", "b_uniform_float"} /\ c.lb > c.ub
    \/ /\ c.fn \in {"b_weibull_int_float", "b_weibull_float_float"}
       /\ (c.shape < 0 \/ c.scale < 0)
    \/ c.fn \in {"b_exponential_float", "b_exponential_int"} /\ c.lambda < 0

\* C13: a sampling builtin called outside its domain (uniform with
\* lower > upper, weibull with a negative shape or scale, exponential with a
\* negative rate) raises EvalError and leaves the engine in the state it had
\* before the call.
C13_RejectedSamplingLeavesEngine ==
    [][(call = NoCall /\ call' # NoCall /\ OutOfDomain(call')) =>
          (result'.kind = "EvalError" /\ env' = env)]_vars

\* uniform(2, 1) was rejected after the engine had been drawn from
C13_Witness ==
    /\ call.fn = "b_uniform_int"
    /\ call.lb = 2 /\ call.ub = 1
    /\ result = UniformError
    /\ env.g = 2

\* C14: discrete_distribution(W) on a one-dimensional weight array of length
\* n returns an index in 1..n (the engine's 0-based sample adjusted by one);
\* a weight array that is not one-dimensional raises EvalError.
C14_DiscreteDistributionOneBased ==
    call.fn = "b_discrete_distribution" =>
       IF call.dims = 1
       THEN result.kind = "IntVal" /\ result.val \in 1..Len(call.al)
       ELSE result.kind = "EvalError"

\* what holds: the engine's 0-based sample is returned as it is
C14_DiscreteDistributionZeroBased ==
    call.fn = "b_discrete_distribution" =>
       IF call.dims = 1
       THEN /\ result.kind = "IntVal"
            /\ call.al # <<>> => result.val \in 0..(Len(call.al) - 1)
       ELSE result.kind = "EvalError"

----------------------------------------------------------------------------
(* arrayNd, src/lib/builtins.cpp 941-998 *)

\* source arrays hold at most MaxElems elements
MaxElems == 4

\* unsigned int arithmetic: the product modulo 2^32, computed on 16-bit halves
Half == 65536
mul_u32(x, y) ==
    LET xh == x \div Half
        xl == x % Half
        yh == y \div Half
        yl == y % Half
        lo == xl * yl
    IN  ((xh * yl + xl * yh + (lo \div Half)) % Half) * Half + (lo % Half)

\* IntVal::toInt() of a finite value
toInt(x) == x.v

\* a new array over the same elements with new per-axis (min, max)
ArrayView(elems, dims) == [kind |-> "ArrayLit", elems |-> elems, dims |-> dims]

\* the loop of b_arrayXd over the index sets: the dims found so far and
\* dim1d, or the error of the first index set of more than one range
RECURSIVE arrayXd_loop(_, _, _, _)
arrayXd_loop(sets, i, dims, dim1d) ==
    IF i > Len(sets) THEN [kind |-> "dims", dims |-> dims, dim1d |-> dim1d]
    ELSE LET di == sets[i]
         IN  IF Len(di) = 0
             THEN arrayXd_loop(sets, i + 1, Append(dims, Extent(1, 0)), 0)
             ELSE IF Len(di) # 1
             THEN EvalError("arrayXd only defined for ranges")
             ELSE arrayXd_loop(sets, i + 1,
                               Append(dims, Extent(toInt(di[1].min), toInt(di[1].max))),
                               mul_u32(dim1d, toInt(di[1].max) - toInt(di[1].min) + 1))

b_arrayXd(c) ==
    LET l == arrayXd_loop(c.sets, 1, <<>>, 1)
    IN  IF l.kind = "EvalError" THEN l
        ELSE IF l.dim1d # Len(c.al)
        THEN EvalError("mismatch in array dimensions")
        ELSE ArrayView(c.al, l.dims)

\* index sets: empty, single ranges (one of them of 2^16 values), and a set
\* of two ranges
IndexSets ==
    {<<>>, IntSetVal_a(1, 1), IntSetVal_a(1, 2), IntSetVal_a(0, 1),
     IntSetVal_a(1, Half), <<Range(Fin(1), Fin(1)), Range(Fin(3), Fin(3))>>}

\* source arrays: the elements are told apart by their position
SourceArrays == {[i \in 1..n |-> i] : n \in 0..MaxElems}

\* b_array1d .. b_array6d: b_arrayXd(env, call, d)
Call_b_arrayNd ==
    /\ ChaseIdle
    /\ \E d \in 1..MaxDims :
          \E sets \in SeqsOfLen(IndexSets, d), al \in SourceArrays :
             LET c == [fn |-> "b_arrayXd", d |-> d, sets |-> sets, al |-> al]
             IN  call' = c /\ result' = b_arrayXd(c)

NextArrayNd ==
    \/ Call_b_arrayNd
    \/ Return

SpecArrayNd == InitIdle /\ [][NextArrayNd]_vars

\* cardinality of a range-set
RECURSIVE card(_)
card(isv) ==
    IF isv = <<>> THEN 0
    ELSE Head(isv).max.v - Head(isv).min.v + 1 + card(Tail(isv))

\* the product of two counts, cut off above MaxElems (every source array is
\* that short)
SatMul(x, y) ==
    IF x = 0 \/ y = 0 THEN 0
    ELSE IF x > MaxElems \/ y > MaxElems \/ x * y > MaxElems THEN MaxElems + 1
    ELSE x * y

RECURSIVE ProductOfCards(_)
ProductOfCards(sets) ==
    IF sets = <<>> THEN 1 ELSE SatMul(card(Head(sets)), ProductOfCards(Tail(sets)))

AllRanges(sets) == \A i \in 1..Len(sets) : Len(sets[i]) <= 1

BoundsOf(isv) == IF isv = <<>> THEN Extent(1, 0) ELSE Extent(isv[1].min.v, isv[1].max.v)

\* C15: arrayNd(S1..SN, A) succeeds exactly when every Si is empty or a
\* single contiguous range and the product of the cardinalities of S1..SN
\* equals the number of elements of A; on success the result has the flat
\* elements of A, N axes and per-axis (min, max) the bounds of Si ((1, 0) for
\* an empty Si); otherwise it raises EvalError.
C15_ArrayNdSucceedsExactlyOnMatch ==
    call.fn = "b_arrayXd" =>
       IF AllRanges(call.sets) /\ ProductOfCards(call.sets) = Len(call.al)
       THEN /\ result.kind = "ArrayLit"
            /\ result.elems = call.al
            /\ Len(result.dims) = call.d
            /\ \A i \in 1..call.d : result.dims[i] = BoundsOf(call.sets[i])
       ELSE result.kind = "EvalError"

\* the product of the cardinalities as unsigned int computes it
RECURSIVE ProductU32(_)
ProductU32(sets) ==
    IF sets = <<>> THEN 1
    ELSE mul_u32(ProductU32(Tail(sets)), card(Head(sets)))

\* what holds: the same, with the product taken modulo 2^32
C15_ArrayNdSucceedsOnMatchModulo ==
    call.fn = "b_arrayXd" =>
       IF AllRanges(call.sets) /\ ProductU32(call.sets) = Len(call.al)
       THEN /\ result.kind = "ArrayLit"
            /\ result.elems = call.al
            /\ Len(result.dims) = call.d
            /\ \A i \in 1..call.d : result.dims[i] = BoundsOf(call.sets[i])
       ELSE result.kind = "EvalError"

----------------------------------------------------------------------------
(* slice_Nd, src/lib/builtins.cpp 2140-2172 *)

\* an IntVal holds a 64-bit integer: Wide(hi, v) is the value hi * 2^32 + v
Wide(hi, v) == [inf |-> FALSE, v |-> v, hi |-> hi]
WidePlusInf == [inf |-> TRUE, v |-> 1, hi |-> 0]
WideMinusInf == [inf |-> TRUE, v |-> -1, hi |-> 0]

\* static_cast<int>(x.toInt()): the low 32 bits
static_cast_int(x) == x.v

\* the ends a selector can have, and the selectors: empty, one range, or two
\* ranges
SelectorEnds == {Wide(0, 0), Wide(0, 1), Wide(0, 3), Wide(1, 1)}
WideLess(x, y) == x.hi < y.hi \/ (x.hi = y.hi /\ x.v <= y.v)
Selectors ==
    {<<>>, <<Range(Wide(0, 1), Wide(0, 1)), Range(Wide(0, 3), Wide(0, 3))>>}
    \cup {<<Range(a, b)>> : a \in SelectorEnds \cup {WideMinusInf},
                            b \in {WidePlusInf}}
    \cup {<<Range(WideMinusInf, b)>> : b \in SelectorEnds}
    \cup {<<Range(p[1], p[2])>> :
             p \in {q \in SelectorEnds \X SelectorEnds : WideLess(q[1], q[2])}}

SliceExtents == {Extent(1, 3), Extent(0, 1)}
NewDims == {<<>>, <<Range(Wide(0, 1), Wide(0, 2))>>}

\* a view of al with new index sets over the selected part
SliceResult(al, newDims, newSlice) ==
    [kind |-> "ArrayLit", al |-> al, dims |-> newDims, slice |-> newSlice]

\* the comparison of the selected ends with the array's extent on the axis
slice_out_of_bounds(sl_min, sl_max, ext) == sl_min < ext.min \/ sl_max > ext.max

\* the first loop of b_slice: the (min, max) selected on every axis, or the
\* error of the first selector that is not contiguous or not within al
RECURSIVE slice_loop(_, _, _, _)
slice_loop(al, slice, i, newSlice) ==
    IF i > Len(slice) THEN [kind |-> "slice", newSlice |-> newSlice]
    ELSE LET isv == slice[i]
         IN  IF Len(isv) = 0
             THEN slice_loop(al, slice, i + 1, Append(newSlice, Extent(1, 0)))
             ELSE IF Len(isv) > 1
             THEN ResultUndefinedError("array slice must be contiguous")
             ELSE LET sl_min == IF isFinite(isv[1].min)
                                THEN static_cast_int(isv[1].min) ELSE al[i].min
                      sl_max == IF isFinite(isv[1].max)
                                THEN static_cast_int(isv[1].max) ELSE al[i].max
                  IN  IF slice_out_of_bounds(sl_min, sl_max, al[i])
                      THEN ResultUndefinedError("array slice out of bounds")
                      ELSE slice_loop(al, slice, i + 1,
                                      Append(newSlice, Extent(sl_min, sl_max)))

\* the second loop: the index sets of the result
new_dims(args) ==
    [i \in 1..Len(args) |->
        IF Len(args[i]) = 0 THEN Extent(1, 0)
        ELSE Extent(static_cast_int(args[i][1].min),
                    static_cast_int(args[i][Len(args[i])].max))]

b_slice(c) ==
    LET l == slice_loop(c.al, c.slice, 1, <<>>)
    IN  IF l.kind = "ResultUndefinedError" THEN l
        ELSE SliceResult(c.al, new_dims(c.dims), l.newSlice)

Call_b_slice ==
    /\ ChaseIdle
    /\ \E n \in 1..MaxDims :
          \E al \in SeqsOfLen(SliceExtents, n), slice \in SeqsOfLen(Selectors, n),
             d \in SeqsOfLen(NewDims, 1) :
             LET c == [fn |-> "b_slice", al |-> al, slice |-> slice, dims |-> d]
             IN  call' = c /\ result' = b_slice(c)

NextSlice ==
    \/ Call_b_slice
    \/ Return

SpecSlice == InitIdle /\ [][NextSlice]_vars

\* the selector's ends as integers, an infinite end replaced by the array's
\* own extent: below the axis minimum, above the axis maximum
ReachesBelow(x, ext) == isFinite(x) /\ (x.hi < 0 \/ (x.hi = 0 /\ x.v < ext.min))
ReachesAbove(x, ext) == isFinite(x) /\ (x.hi > 0 \/ (x.hi = 0 /\ x.v > ext.max))

BadSelector(isv, ext) ==
    \/ Len(isv) > 1
    \/ Len(isv) = 1 /\ (ReachesBelow(isv[1].min, ext) \/ ReachesAbove(isv[1].max, ext))

\* C16: slice_Nd raises ResultUndefined (not EvalError) whenever some axis
\* selector has more than one range or, an infinite end replaced by the
\* array's extent, reaches below the axis minimum or above the axis maximum;
\* when every selector is empty or a single in-bounds range no error is
\* raised and an empty selector yields the empty extent (1, 0).
C16_SliceUndefinedOffBounds ==
    call.fn = "b_slice" =>
       IF \E i \in 1..Len(call.slice) : BadSelector(call.slice[i], call.al[i])
       THEN result.kind = "ResultUndefinedError"
       ELSE /\ result.kind = "ArrayLit"
            /\ \A i \in 1..Len(call.slice) :
                  call.slice[i] = <<>> => result.slice[i] = Extent(1, 0)

\* what holds: the same, the ends of a selector taken as the 32-bit integers
\* the code compares
BadSelector32(isv, ext) ==
    \/ Len(isv) > 1
    \/ /\ Len(isv) = 1
       /\ \/ isFinite(isv[1].min) /\ static_cast_int(isv[1].min) < ext.min
          \/ isFinite(isv[1].max) /\ static_cast_int(isv[1].max) > ext.max

C16_SliceUndefinedOffBounds32 ==
    call.fn = "b_slice" =>
       IF \E i \in 1..Len(call.slice) : BadSelector32(call.slice[i], call.al[i])
       THEN result.kind = "ResultUndefinedError"
       ELSE /\ result.kind = "ArrayLit"
            /\ \A i \in 1..Len(call.slice) :
                  call.slice[i] = <<>> => result.slice[i] = Extent(1, 0)

----------------------------------------------------------------------------
(* Registration of the builtins, src/lib/builtins.cpp 31-84, 2251-3039 *)

\* the implementation shapes of FunctionI::_builtins, one slot each
Shapes == {"e", "f", "i", "b", "s", "str"}
NoBuiltins == [sh \in Shapes |-> "NULL"]

\* a function declaration of the model, known by name and signature
FunctionI(id, t) == [k |-> "FunctionI", par |-> FALSE, id |-> id, t |-> t]

\* one call of rb: name, signature, implementation with its shape, and the
\* fromGlobals flag
Reg(id, t, b, shape, fromGlobals) ==
    [id |-> id, t |-> t, b |-> b, shape |-> shape, fromGlobals |-> fromGlobals]

\* the calls registerBuiltins makes for is_fixed, fix, mzn_compiler_version
\* and regular, in the order it makes them
Registrations ==
    << Reg("is_fixed", "optvartop", "b_is_fixed", "b", FALSE),
       Reg("is_fixed", "optvartop(-1)", "b_is_fixed_array", "b", FALSE),
       Reg("fix", "optvartop", "b_fix_bool", "b", FALSE),
       Reg("fix", "optvartop", "b_fix_int", "i", FALSE),
       Reg("fix", "optvartop", "b_fix_set", "s", FALSE),
       Reg("fix", "optvartop", "b_fix_float", "f", FALSE),
       Reg("fix", "optvartop(1)", "b_fix_array", "e", FALSE),
       Reg("mzn_compiler_version", "", "b_mzn_compiler_version", "str", FALSE),
       Reg("regular", "varint(1),parstring", "b_regular_from_string", "e", TRUE) >>

\* the declarations a model can have for them
DeclUniverse == {FunctionI(Registrations[n].id, Registrations[n].t) :
                    n \in 1..Len(Registrations)}

\* the model: its function declarations, and the builtins bound to each
Model(decls, builtins) == [decls |-> decls, builtins |-> builtins]

\* m->matchFn(env, id, t, false): the declaration of that name and signature,
\* or the null pointer
matchFn(m, id, t) ==
    IF FunctionI(id, t) \in m.decls THEN FunctionI(id, t) ELSE NULL

InternalError(m) == [kind |-> "InternalError", msg |-> m]

\* a plausible slip: binding an implementation clears the other shapes
bind_exclusive(builtins, shape, b) ==
    [sh \in Shapes |-> IF sh = shape THEN b ELSE "NULL"]

\* fi->_builtins.<shape> = b
bind(builtins, shape, b) == [builtins EXCEPT ![shape] = b]

\* a plausible slip: fromGlobals is not looked at
rb_strict(m, r) ==
    LET fi == matchFn(m, r.id, r.t)
    IN  IF fi # NULL
        THEN [m |-> Model(m.decls,
                          [m.builtins EXCEPT ![fi] = bind(m.builtins[fi], r.shape, r.b)]),
              thrown |-> NoResult]
        ELSE [m |-> m, thrown |-> InternalError("no definition found for builtin")]

\* rb: the model it leaves, and the error it throws if any
rb(m, r) ==
    LET fi == matchFn(m, r.id, r.t)
    IN  IF fi # NULL
        THEN [m |-> Model(m.decls,
                          [m.builtins EXCEPT ![fi] = bind(m.builtins[fi], r.shape, r.b)]),
              thrown |-> NoResult]
        ELSE IF ~r.fromGlobals
        THEN [m |-> m, thrown |-> InternalError("no definition found for builtin")]
        ELSE [m |-> m, thrown |-> NoResult]

\* registerBuiltins is entered on a model that has no builtin bound
Call_registerBuiltins ==
    /\ call = NoCall
    /\ pc = "idle"
    /\ call' = [fn |-> "registerBuiltins"]
    /\ pc' = "rb"
    /\ idx' = 1
    /\ UNCHANGED <<result, cur, examined, env>>

\* the next call of rb; an error it throws ends registerBuiltins
registerBuiltins_rb ==
    /\ pc = "rb"
    /\ idx <= Len(Registrations)
    /\ LET o == rb(env, Registrations[idx])
       IN  /\ env' = o.m
           /\ result' = o.thrown
           /\ IF o.thrown = NoResult
              THEN idx' = idx + 1 /\ pc' = "rb"
              ELSE idx' = idx /\ pc' = "done"
    /\ UNCHANGED <<call, cur, examined>>

registerBuiltins_return ==
    /\ pc = "rb"
    /\ idx > Len(Registrations)
    /\ pc' = "done"
    /\ UNCHANGED <<call, result, idx, cur, examined, env>>

InitRegister ==
    /\ call = NoCall
    /\ result = NoResult
    /\ pc = "idle"
    /\ cur = NULL
    /\ idx = 0
    /\ examined = <<>>
    /\ \E decls \in SUBSET DeclUniverse :
          env = Model(decls, [d \in decls |-> NoBuiltins])

NextRegister ==
    \/ Call_registerBuiltins
    \/ registerBuiltins_rb
    \/ registerBuiltins_return

SpecRegister == InitRegister /\ [][NextRegister]_vars

\* the registration the step is about
AtRegistration == pc = "rb" /\ idx <= Len(Registrations)
Registered == Registrations[idx]
Declared(r) == FunctionI(r.id, r.t) \in env.decls

\* C17: registering a builtin for a (name, signature) that matches no
\* function declaration raises a registration error when the registration is
\* not marked best-effort; when it is, nothing is raised and every existing
\* binding is unchanged; when a declaration matches, the implementation is
\* bound to exactly that declaration.
C17_RegistrationNeedsDeclaration ==
    [][AtRegistration =>
          IF ~Declared(Registered)
          THEN IF ~Registered.fromGlobals
               THEN result'.kind = "InternalError" /\ env' = env
               ELSE result' = NoResult /\ env' = env /\ pc' = "rb"
          ELSE /\ result' = NoResult
               /\ env'.decls = env.decls
               /\ env'.builtins[FunctionI(Registered.id, Registered.t)][Registered.shape]
                     = Registered.b
               /\ \A d \in env.decls \ {FunctionI(Registered.id, Registered.t)} :
                     env'.builtins[d] = env.builtins[d]]_vars

\* regular, registered best-effort, had no declaration: nothing was raised
\* and the bindings made before stand
C17_Witness ==
    /\ pc = "done"
    /\ result = NoResult
    /\ FunctionI("regular", "varint(1),parstring") \notin env.decls
    /\ env.builtins[FunctionI("fix", "optvartop(1)")]["e"] = "b_fix_array"

BoundShapes(d) == {sh \in Shapes : env.builtins[d][sh] # "NULL"}

----------------------------------------------------------------------------
(* occurs, deopt, src/lib/builtins.cpp 236-287 *)

\* constants().absent, the value of an optional that is not there
absent == [k |-> "absent", par |-> TRUE]

\* eval_par on an optional par expression: absent stays absent
eval_par_opt(e) == IF e = absent THEN absent ELSE eval_par(e)

OptExprs == {absent} \cup {Lit(v) : v \in Vals} \cup {ParExp(v) : v \in Vals}

AbsentError == EvalError("cannot evaluate deopt on absent value")

b_occurs(e) == BoolResult(eval_par_opt(e) # absent)

\* the deopt overloads differ in the evaluation of the value only
b_deopt_int(e) ==
    IF eval_par_opt(e) = absent THEN AbsentError
    ELSE IntResult(eval_int(eval_par_opt(e)))
b_deopt_bool(e) ==
    IF eval_par_opt(e) = absent THEN AbsentError
    ELSE BoolResult(eval_int(eval_par_opt(e)))
b_deopt_float(e) ==
    IF eval_par_opt(e) = absent THEN AbsentError
    ELSE FloatResult(eval_int(eval_par_opt(e)))
b_deopt_intset(e) ==
    IF eval_par_opt(e) = absent THEN AbsentError
    ELSE IntSetResult(eval_int(eval_par_opt(e)))
b_deopt_string(e) ==
    IF eval_par_opt(e) = absent THEN AbsentError
    ELSE StringResult(eval_int(eval_par_opt(e)))
b_deopt_expr(e) ==
    IF eval_par_opt(e) = absent THEN AbsentError
    ELSE ExprResult(eval_par_opt(e))

Call_b_occurs ==
    /\ ChaseIdle
    /\ call' = [fn |-> "b_occurs", arg |-> env.e]
    /\ result' = b_occurs(env.e)

Call_b_deopt_int ==
    /\ ChaseIdle
    /\ call' = [fn |-> "b_deopt_int", arg |-> env.e]
    /\ result' = b_deopt_int(env.e)

Call_b_deopt_bool ==
    /\ ChaseIdle
    /\ call' = [fn |-> "b_deopt_bool", arg |-> env.e]
    /\ result' = b_deopt_bool(env.e)

Call_b_deopt_float ==
    /\ ChaseIdle
    /\ call' = [fn |-> "b_deopt_float", arg |-> env.e]
    /\ result' = b_deopt_float(env.e)

Call_b_deopt_intset ==
    /\ ChaseIdle
    /\ call' = [fn |-> "b_deopt_intset", arg |-> env.e]
    /\ result' = b_deopt_intset(env.e)

Call_b_deopt_string ==
    /\ ChaseIdle
    /\ call' = [fn |-> "b_deopt_string", arg |-> env.e]
    /\ result' = b_deopt_string(env.e)

Call_b_deopt_expr ==
    /\ ChaseIdle
    /\ call' = [fn |-> "b_deopt_expr", arg |-> env.e]
    /\ result' = b_deopt_expr(env.e)

\* the caller takes the result and keeps it beside the expression
Return_opt_logged ==
    /\ call # NoCall
    /\ pc = "idle"
    /\ env' = [env EXCEPT !.log = [env.log EXCEPT ![call.fn] = result]]
    /\ call' = NoCall
    /\ result' = NoResult
    /\ UNCHANGED <<pc, cur, idx, examined>>

DeoptFns ==
    {"b_deopt_int", "b_deopt_bool", "b_deopt_float", "b_deopt_intset",
     "b_deopt_string", "b_deopt_expr"}

InitOpt ==
    /\ call = NoCall
    /\ result = NoResult
    /\ pc = "idle"
    /\ cur = NULL
    /\ idx = 0
    /\ examined = <<>>
    /\ \E e \in OptExprs :
          env = [e |-> e, log |-> [fn \in DeoptFns \cup {"b_occurs"} |-> NoResult]]

NextOpt ==
    \/ Call_b_occurs
    \/ Call_b_deopt_int
    \/ Call_b_deopt_bool
    \/ Call_b_deopt_float
    \/ Call_b_deopt_intset
    \/ Call_b_deopt_string
    \/ Call_b_deopt_expr
    \/ Return_opt_logged

SpecOpt == InitOpt /\ [][NextOpt]_vars

\* the value of an expression that is there
ValueOf(e) == e.v

\* C20: deopt(e) fails exactly when occurs(e) is false, and that failure is
\* the ResultUndefined outcome for every deopt overload; when occurs(e) is
\* true deopt(e) returns the value of e without error.
C20_DeoptUndefinedOnAbsent ==
    \A fn \in DeoptFns :
       (env.log.b_occurs # NoResult /\ env.log[fn] # NoResult) =>
          IF env.log.b_occurs = BoolResult(FALSE)
          THEN env.log[fn].kind = "ResultUndefinedError"
          ELSE IF fn = "b_deopt_expr"
               THEN env.log[fn].kind = "Expression" /\ ValueOf(env.log[fn].e) = ValueOf(env.e)
               ELSE env.log[fn].kind \notin {"EvalError", "ResultUndefinedError"}

\* what holds: the same, the failure being EvalError
C20_DeoptEvalErrorOnAbsent ==
    \A fn \in DeoptFns :
       (env.log.b_occurs # NoResult /\ env.log[fn] # NoResult) =>
          IF env.log.b_occurs = BoolResult(FALSE)
          THEN env.log[fn] = AbsentError
          ELSE IF fn = "b_deopt_expr"
               THEN env.log[fn].kind = "Expression" /\ ValueOf(env.log[fn].e) = ValueOf(env.e)
               ELSE env.log[fn].kind \notin {"EvalError", "ResultUndefinedError"}

----------------------------------------------------------------------------
(* array_union, array_intersect, src/lib/builtins.cpp 1647-1706 *)

\* the sets of the arrays are subsets of 1..MaxSetElem
MaxSetElem == 5

\* the integers of a range-set, and the range-set of a finite set of integers:
\* its maximal runs, ascending
RECURSIVE ToSet(_)
ToSet(isv) ==
    IF isv = <<>> THEN {}
    ELSE (Head(isv).min.v..Head(isv).max.v) \cup ToSet(Tail(isv))

RECURSIVE FromSet(_)
FromSet(S) ==
    IF S = {} THEN <<>>
    ELSE LET m == CHOOSE x \in S : \A y \in S : x <= y
             n == CHOOSE x \in S : (m..x) \subseteq S /\ (x + 1) \notin S
         IN  <<Range(Fin(m), Fin(n))>> \o FromSet(S \ (m..n))

RangeSets == {FromSet(S) : S \in SUBSET (1..MaxSetElem)}

\* IntSetVal::ai(Ranges::Union(i0, i1)): the union of two range-sets
Ranges_Union(i0, i1) == FromSet(ToSet(i0) \cup ToSet(i1))

RECURSIVE union_loop(_, _, _)
union_loop(al, i, isv) ==
    IF i > Len(al) THEN isv
    ELSE union_loop(al, i + 1, Ranges_Union(isv, al[i]))

b_array_union(al) ==
    IF Len(al) = 0 THEN IntSetResult(<<>>)
    ELSE IntSetResult(union_loop(al, 1, al[1]))

\* while (ij() && ij.max() < min) ++ij: the ranges of a set from the first
\* one that does not end before min
RECURSIVE skip_small(_, _)
skip_small(ij, min) ==
    IF ij # <<>> /\ Head(ij).max.v < min THEN skip_small(Tail(ij), min) ELSE ij

\* b_array_intersect does not return: its loop repeats and the vector of
\* ranges grows until memory runs out
NoReturn == [kind |-> "NoReturn"]

\* the loops of b_array_intersect: j counts the sets still to look at for the
\* interval (min, max); j = 0 ends the for loop, the interval is pushed and
\* the while loop goes on from max + 2 with the maximum of the first
\* interval of the first set (i0r is never advanced).  The while loop's
\* course depends on min alone, so it never ends once it is entered again
\* with a min it was entered with before (seen)
RECURSIVE intersect(_, _, _, _, _, _)
intersect(al, j, min, max, ranges, seen) ==
    IF j = 0
    THEN IF (max + 2) \in seen THEN NoReturn
         ELSE intersect(al, Len(al), max + 2, al[1][1].max.v,
                        Append(ranges, Range(Fin(min), Fin(max))),
                        seen \cup {max + 2})
    ELSE LET ij == skip_small(al[j], min)
         IN  IF ij = <<>> THEN IntSetResult(ranges)
             ELSE IF Head(ij).min.v > max
             THEN intersect(al, Len(al), Head(ij).min.v, Head(ij).max.v, ranges, seen)
             ELSE intersect(al, j - 1,
                     IF min < Head(ij).min.v THEN Head(ij).min.v ELSE min,
                     IF max > Head(ij).max.v THEN Head(ij).max.v ELSE max,
                     ranges, seen)

b_array_intersect(al) ==
    IF Len(al) > 0
    THEN IF Len(al[1]) > 0
         THEN intersect(al, Len(al), al[1][1].min.v, al[1][1].max.v, <<>>,
                        {al[1][1].min.v})
         ELSE IntSetResult(<<>>)
    ELSE IntSetResult(<<>>)

\* arrays of up to two sets, and arrays of three sets of the smaller integers
SmallRangeSets == {FromSet(S) : S \in SUBSET (1..(MaxSetElem - 2))}
SetArrays == SeqsUpTo(RangeSets, 2) \cup SeqsOfLen(SmallRangeSets, 3)

Call_b_array_union ==
    /\ ChaseIdle
    /\ \E al \in SetArrays :
          /\ call' = [fn |-> "b_array_union", al |-> al]
          /\ result' = b_array_union(al)

Call_b_array_intersect ==
    /\ ChaseIdle
    /\ \E al \in SetArrays :
          /\ call' = [fn |-> "b_array_intersect", al |-> al]
          /\ result' = b_array_intersect(al)

NextSetOps ==
    \/ Call_b_array_union
    \/ Call_b_array_intersect
    \/ Return

SpecSetOps == InitIdle /\ [][NextSetOps]_vars

\* union and intersection of two range-sets, as the builtins compute them
U(a, b) == b_array_union(<<a, b>>)
I(a, b) == b_array_intersect(<<a, b>>)
\* the same on results; an operand that was never returned gives no result
UU(x, y) == IF NoReturn \in {x, y} THEN NoReturn ELSE U(x.isv, y.isv)
II(x, y) == IF NoReturn \in {x, y} THEN NoReturn ELSE I(x.isv, y.isv)

Permuted(al, p) == [i \in 1..Len(al) |-> al[p[i]]]

\* C19: on finite integer range-sets union and intersection are commutative
\* and associative and intersection distributes over union; array_union and
\* array_intersect of an array of sets return the same set for every
\* permutation of the array's elements.
C19_SetAlgebraAndPermutations ==
    call.fn \in {"b_array_union", "b_array_intersect"} =>
       /\ result.kind = "IntSetVal"
       /\ \A p \in Perms(Len(call.al)) :
             IF call.fn = "b_array_union"
             THEN b_array_union(Permuted(call.al, p)) = result
             ELSE b_array_intersect(Permuted(call.al, p)) = result
       /\ Len(call.al) = 3 =>
             LET A == IntSetResult(call.al[1])
                 B == IntSetResult(call.al[2])
                 C == IntSetResult(call.al[3])
             IN  /\ UU(A, B) = UU(B, A)
                 /\ II(A, B) = II(B, A)
                 /\ UU(UU(A, B), C) = UU(A, UU(B, C))
                 /\ II(II(A, B), C) = II(A, II(B, C))
                 /\ II(A, UU(B, C)) = UU(II(A, B), II(A, C))

\* what holds: array_union returns the same set for every permutation, and
\* so does array_intersect among the permutations on which it returns
C19_SameSetWhereverReturned ==
    call.fn \in {"b_array_union", "b_array_intersect"} =>
       \A p \in Perms(Len(call.al)) :
          IF call.fn = "b_array_union"
          THEN b_array_union(Permuted(call.al, p)) = result
          ELSE NoReturn \in {result, b_array_intersect(Permuted(call.al, p))}
                  \/ b_array_intersect(Permuted(call.al, p)) = result

----------------------------------------------------------------------------
(* The classification of the fixed-value chase, checked under SpecFix *)

\* what the chase is to answer on an expression: the constant it is fixed
\* to, or NULL when it is not fixed
RECURSIVE isFixed(_)
isFixed(c) ==
    IF c = NULL THEN NULL
    ELSE IF c.par THEN c
    ELSE IF c.k = "Id" THEN isFixed(c.decl)
    ELSE IF c.k = "VarDecl"
         THEN IF ~c.st_set /\ c.dom.k = "Lit" THEN c.dom ELSE isFixed(c.e)
    ELSE NULL

\* C21: the chase classifies an expression as follows: a constant (par)
\* expression is fixed and returned as is; an identifier is followed to its
\* declaration; a non-set declaration whose declared domain is a single
\* literal is fixed with that literal; any other declaration is followed to
\* its initializer; a declaration with no initializer, or any construct that
\* is no identifier and no declaration, is not fixed.
C21_ChaseClassification ==
    pc = "done" =>
        /\ call.fn = "b_is_fixed" =>
              result = BoolResult(isFixed(eval_par(call.arg)) # NULL)
        /\ call.fn = "b_fix" =>
              result = IF isFixed(eval_par(call.arg)) = NULL
                       THEN EvalError("expression is not fixed")
                       ELSE ExprResult(isFixed(eval_par(call.arg)))

\* a set declaration with a literal for domain was followed to its
\* initializer, an identifier of a non-set declaration with a literal domain
\* and no initializer: fixed to that literal
C21_Witness ==
    /\ pc = "done" /\ call.fn = "b_fix"
    /\ call.arg = Id(VarDecl(TRUE, Lit(1), Id(VarDecl(FALSE, Lit(2), NULL))))
    /\ result = ExprResult(Lit(2))

----------------------------------------------------------------------------
(* exp_is_fixed on a graph of declarations, src/lib/builtins.cpp 1100-1124 *)

\* the model under evaluation holds at most MaxDecls declarations
MaxDecls == 2

DeclIds == 1..MaxDecls

\* an identifier whose decl() is declaration n of the model
IdOf(n) == [k |-> "Id", par |-> FALSE, ref |-> n]

\* a non-set declaration of the model: its declared domain, its initializer
\* e() and its flattened declaration flat() (0: none recorded)
HeapDecl(dom, e, flat) ==
    [k |-> "VarDecl", par |-> FALSE, st_set |-> FALSE, dom |-> dom, e |-> e,
     flat |-> flat]

\* initializers: none, a literal, a call on variables, an identifier
HeapInits == {NULL, Lit(1), VarCall} \cup {IdOf(n) : n \in DeclIds}

\* a flattened declaration is recorded on declarations with no initializer
HeapDecls ==
    {HeapDecl(dom, e, 0) : dom \in {NULL, Lit(2)}, e \in HeapInits \ {NULL}}
    \cup {HeapDecl(dom, NULL, f) : dom \in {NULL, Lit(2)}, f \in {0} \cup DeclIds}

\* Id::decl()
decl(decls, id) == decls[id.ref]

\* cur = cur->cast<Id>()->decl(), or cur = cur->cast<VarDecl>()->e()
chase_next_in(decls, c) == IF c.k = "Id" THEN decl(decls, c) ELSE c.e

\* one turn of the loop of exp_is_fixed that does not return
exp_is_fixed_follow ==
    /\ pc = "chase"
    /\ ~chase_returns(cur)
    /\ cur' = chase_next_in(env.decls, cur)
    /\ UNCHANGED <<call, result, pc, idx, examined, env>>

InitChase ==
    /\ call = NoCall
    /\ result = NoResult
    /\ pc = "idle"
    /\ cur = NULL
    /\ idx = 0
    /\ examined = <<>>
    /\ \E decls \in [DeclIds -> HeapDecls], n \in DeclIds :
          env = [decls |-> decls, e |-> IdOf(n)]

NextChase ==
    \/ Call_b_is_fixed
    \/ exp_is_fixed_follow
    \/ Return_b_is_fixed
    \/ Return

SpecChase == InitChase /\ [][NextChase]_vars

\* the evaluation is synchronous: a loop turn or a return that can be taken
\* is taken
SpecChaseFair ==
    SpecChase /\ WF_vars(exp_is_fixed_follow) /\ WF_vars(Return_b_is_fixed)

\* C22: within one chase no declaration is visited twice, so the chase
\* terminates on every identifier/declaration graph, a self-referential
\* chain included: a chase that was entered returns.
C22_ChaseTerminates == (pc = "chase") ~> (pc = "done")

\* the chase that goes on through the flattened declaration of a declaration
\* with no initializer, and visits no declaration twice: the constant it
\* resolves c to, or NULL
RECURSIVE resolves_through_flat(_, _, _)
resolves_through_flat(decls, c, seen) ==
    IF c.k = "NULL" THEN NULL
    ELSE IF c.par THEN c
    ELSE IF c.k = "Id"
         THEN IF c.ref \in seen THEN NULL
              ELSE resolves_through_flat(decls, decls[c.ref], seen \cup {c.ref})
    ELSE IF c.k = "VarDecl"
         THEN IF ~c.st_set /\ c.dom.k = "Lit" THEN c.dom
              ELSE IF c.e # NULL THEN resolves_through_flat(decls, c.e, seen)
              ELSE IF c.flat = 0 \/ c.flat \in seen THEN NULL
              ELSE resolves_through_flat(decls, decls[c.flat], seen \cup {c.flat})
    ELSE NULL

\* C23: when the chase reaches a declaration that has no direct initializer
\* but has a recorded flattened declaration, it continues through that
\* flattened binding, so is_fixed is true whenever the flattened binding
\* resolves to a constant.
C23_ChaseFollowsFlat ==
    (/\ pc = "done"
     /\ call.fn = "b_is_fixed"
     /\ resolves_through_flat(env.decls, call.arg, {}) # NULL) =>
        result = BoolResult(TRUE)

----------------------------------------------------------------------------
(* lb_array, ub_array, dom_bounds_array, src/lib/builtins.cpp 289-390, 800-852 *)

\* the order of IntVal, the infinities included
IntVal_less(x, y) ==
    IF x.inf THEN x.v < 0 /\ ~(y.inf /\ y.v < 0)
    ELSE IF y.inf THEN y.v > 0
    ELSE x.v < y.v

\* std::min and std::max on IntVal
IntVal_min(x, y) == IF IntVal_less(y, x) THEN y ELSE x
IntVal_max(x, y) == IF IntVal_less(x, y) THEN y ELSE x

\* a set literal for declared domain, with its ranges in ascending order
IntSetDom(isv) == [k |-> "SetLit", par |-> TRUE, isv |-> isv]

\* an array literal of integer variables, each given by the answer of
\* compute_int_bounds on it
ArrayLitOf(elems) == [k |-> "ArrayLit", par |-> FALSE, elems |-> elems]

\* the declaration of an array: declared element domain, initializer e() and
\* the initializer flat()->e() of its flattened declaration
ArrayVarDecl(dom, e, flat_e) ==
    [k |-> "VarDecl", par |-> FALSE, dom |-> dom, e |-> e, flat_e |-> flat_e]

\* the for loop over the elements: the running minimum and maximum, and
\* whether the loop ran to its end (it is left at the first invalid bounds)
RECURSIVE bounds_loop(_, _, _, _)
bounds_loop(elems, i, min, max) ==
    IF i > Len(elems) THEN [valid |-> TRUE, min |-> min, max |-> max]
    ELSE IF ~elems[i].valid THEN [valid |-> FALSE, min |-> min, max |-> max]
    ELSE bounds_loop(elems, i + 1, IntVal_min(min, elems[i].l),
                     IntVal_max(max, elems[i].u))

\* if (vd->ti()->domain()) { isv = eval_intset(...); if (isv->size()!=0) ... }
found_domain(e0) ==
    e0.k = "VarDecl" /\ e0.dom # NULL /\ Len(e0.dom.isv) # 0

isv_min(isv) == isv[1].min
isv_max(isv) == isv[Len(isv)].max

\* a plausible slip: the declared domain is not met with the element bounds
b_array_lb_int_no_meet(e0) ==
    LET e == IF e0.k = "VarDecl" THEN e0.e ELSE e0
    IN  IF e = NULL
        THEN IntResult(IF found_domain(e0) THEN isv_min(e0.dom.isv) ELSE MinusInf)
        ELSE IF Len(e.elems) = 0
        THEN EvalError("lower bound of empty array undefined")
        ELSE LET r == bounds_loop(e.elems, 1, PlusInf, MinusInf)
             IN  IF ~r.valid
                 THEN IntResult(IF found_domain(e0) THEN isv_min(e0.dom.isv)
                                ELSE MinusInf)
                 ELSE IntResult(r.min)

b_array_lb_int(e0) ==
    LET foundMin == found_domain(e0)
        array_lb == IF foundMin THEN isv_min(e0.dom.isv) ELSE MinusInf
        e == IF e0.k = "VarDecl" THEN e0.e ELSE e0
    IN  IF e = NULL
        THEN IntResult(IF foundMin THEN array_lb ELSE MinusInf)
        ELSE IF Len(e.elems) = 0
        THEN EvalError("lower bound of empty array undefined")
        ELSE LET r == bounds_loop(e.elems, 1, PlusInf, MinusInf)
             IN  IF ~r.valid
                 THEN IntResult(IF foundMin THEN array_lb ELSE MinusInf)
                 ELSE IF foundMin
                 THEN IntResult(IntVal_max(array_lb, r.min))
                 ELSE IntResult(r.min)

b_array_ub_int(e0) ==
    LET foundMax == found_domain(e0)
        array_ub == IF foundMax THEN isv_max(e0.dom.isv) ELSE PlusInf
        e == IF e0.k = "VarDecl" THEN e0.e ELSE e0
    IN  IF e = NULL
        THEN IntResult(IF foundMax THEN array_ub ELSE PlusInf)
        ELSE IF Len(e.elems) = 0
        THEN EvalError("upper bound of empty array undefined")
        ELSE LET r == bounds_loop(e.elems, 1, PlusInf, MinusInf)
             IN  IF ~r.valid
                 THEN IntResult(IF foundMax THEN array_ub ELSE PlusInf)
                 ELSE IF foundMax
                 THEN IntResult(IntVal_min(array_ub, r.max))
                 ELSE IntResult(r.max)

\* IntSetVal::a on IntVal ends
IntSetVal_range(m, n) == IF IntVal_less(n, m) THEN <<>> ELSE <<Range(m, n)>>

b_dom_bounds_array(e0) ==
    LET foundBounds == found_domain(e0)
        e == IF e0.k = "VarDecl"
             THEN IF e0.e = NULL THEN e0.flat_e ELSE e0.e
             ELSE e0
    IN  IF foundBounds
        THEN IntSetResult(IntSetVal_range(isv_min(e0.dom.isv), isv_max(e0.dom.isv)))
        ELSE IF e = NULL THEN EvalError("cannot determine lower bound")
        ELSE IF Len(e.elems) = 0
        THEN EvalError("lower bound of empty array undefined")
        ELSE LET r == bounds_loop(e.elems, 1, PlusInf, MinusInf)
             IN  IF ~r.valid THEN EvalError("cannot determine lower bound")
                 ELSE IntSetResult(IntSetVal_range(IntVal_max(MinusInf, r.min),
                                                   IntVal_min(PlusInf, r.max)))

\* arrays handed to the bound queries hold at most MaxBoundsLen elements
MaxBoundsLen == 2

BoundVals == 0..MaxVal

\* what compute_int_bounds answers on an element
ElemBounds ==
    {IntBounds(Fin(0), Fin(0), FALSE), IntBounds(MinusInf, PlusInf, TRUE)}
    \cup {IntBounds(Fin(lu[1]), Fin(lu[2]), TRUE) :
             lu \in {p \in BoundVals \X BoundVals : p[1] <= p[2]}}

BoundArrays == {ArrayLitOf(s) : s \in SeqsUpTo(ElemBounds, MaxBoundsLen)}

\* declared element domains: none, the empty set, a range, two ranges
ElemDomains ==
    {NULL, IntSetDom(<<>>),
     IntSetDom(<<Range(Fin(0), Fin(0)), Range(Fin(2), Fin(MaxVal))>>)}
    \cup {IntSetDom(<<Range(Fin(lu[1]), Fin(lu[2]))>>) :
             lu \in {p \in BoundVals \X BoundVals : p[1] <= p[2]}}

\* what follow_id_to_decl hands over: the array literal al itself, or the
\* declaration of an array with domain d that has al for initializer, or
\* that has no initializer and a flattened declaration with initializer al
BoundArg(shape, d, al) ==
    IF shape = "literal" THEN al
    ELSE IF shape = "initializer" THEN ArrayVarDecl(d, al, NULL)
    ELSE ArrayVarDecl(d, NULL, al)

ArgShapes == {"literal", "initializer", "flattened"}

Call_b_array_lb_int ==
    /\ ChaseIdle
    /\ \E shape \in ArgShapes, d \in ElemDomains, al \in BoundArrays :
          /\ call' = [fn |-> "b_array_lb_int", arg |-> BoundArg(shape, d, al)]
          /\ result' = b_array_lb_int(BoundArg(shape, d, al))

Call_b_array_ub_int ==
    /\ ChaseIdle
    /\ \E shape \in ArgShapes, d \in ElemDomains, al \in BoundArrays :
          /\ call' = [fn |-> "b_array_ub_int", arg |-> BoundArg(shape, d, al)]
          /\ result' = b_array_ub_int(BoundArg(shape, d, al))

Call_b_dom_bounds_array ==
    /\ ChaseIdle
    /\ \E shape \in ArgShapes, d \in ElemDomains, al \in BoundArrays :
          /\ call' = [fn |-> "b_dom_bounds_array", arg |-> BoundArg(shape, d, al)]
          /\ result' = b_dom_bounds_array(BoundArg(shape, d, al))

NextArrayBounds ==
    \/ Call_b_array_lb_int
    \/ Call_b_array_ub_int
    \/ Call_b_dom_bounds_array
    \/ Return

SpecArrayBounds == InitIdle /\ [][NextArrayBounds]_vars

\* the initializer of the argument, when it has one
InitializerOf(e0) == IF e0.k = "VarDecl" THEN e0.e ELSE e0

\* the argument has a non-empty initializer whose elements all have valid bounds
AllBoundsValid(e0) ==
    /\ InitializerOf(e0) # NULL
    /\ Len(InitializerOf(e0).elems) > 0
    /\ \A i \in 1..Len(InitializerOf(e0).elems) : InitializerOf(e0).elems[i].valid

\* min_i l_i and max_i u_i
LeastLower(elems) ==
    CHOOSE l \in {elems[i].l : i \in 1..Len(elems)} :
        \A i \in 1..Len(elems) : ~IntVal_less(elems[i].l, l)
GreatestUpper(elems) ==
    CHOOSE u \in {elems[i].u : i \in 1..Len(elems)} :
        \A i \in 1..Len(elems) : ~IntVal_less(u, elems[i].u)

\* C24: for an integer array whose elements all have valid bounds l_i..u_i,
\* lb_array returns min_i l_i and ub_array returns max_i u_i when the array
\* has no declared non-empty element domain D, and with one they return the
\* meet with it, max(min D, min_i l_i) and min(max D, max_i u_i).
C24_ArrayBoundsMeetDomain ==
    (call.fn \in {"b_array_lb_int", "b_array_ub_int"} /\ AllBoundsValid(call.arg)) =>
        LET elems == InitializerOf(call.arg).elems
            D == call.arg.dom.isv
        IN  /\ (call.fn = "b_array_lb_int" /\ ~found_domain(call.arg)) =>
                  result = IntResult(LeastLower(elems))
            /\ (call.fn = "b_array_ub_int" /\ ~found_domain(call.arg)) =>
                  result = IntResult(GreatestUpper(elems))
            /\ (call.fn = "b_array_lb_int" /\ found_domain(call.arg)) =>
                  result = IntResult(IntVal_max(D[1].min, LeastLower(elems)))
            /\ (call.fn = "b_array_ub_int" /\ found_domain(call.arg)) =>
                  result = IntResult(IntVal_min(D[Len(D)].max, GreatestUpper(elems)))

\* lb_array of an array declared over 1..2 with element bounds 0..1 and 2..2:
\* the least element bound 0 is below the domain, the answer is 1
C24_Witness ==
    /\ call.fn = "b_array_lb_int"
    /\ call.arg = ArrayVarDecl(IntSetDom(<<Range(Fin(1), Fin(2))>>),
                            ArrayLitOf(<<IntBounds(Fin(0), Fin(1), TRUE),
                                         IntBounds(Fin(2), Fin(2), TRUE)>>), NULL)
    /\ result = IntResult(Fin(1))

\* C25: dom_bounds_array of an integer array that has both a declared
\* non-empty element domain D and an initializer whose elements all have
\* valid bounds l_i..u_i returns the meet of the two, the interval
\* max(min D, min_i l_i) .. min(max D, max_i u_i).
C25_DomBoundsArrayMeet ==
    (/\ call.fn = "b_dom_bounds_array"
     /\ found_domain(call.arg)
     /\ AllBoundsValid(call.arg)) =>
        LET elems == InitializerOf(call.arg).elems
            D == call.arg.dom.isv
        IN  result = IntSetResult(IntSetVal_range(
                         IntVal_max(D[1].min, LeastLower(elems)),
                         IntVal_min(D[Len(D)].max, GreatestUpper(elems))))

\* the argument is a non-empty array with no declared element domain and an
\* element with invalid bounds
SomeBoundsInvalid(e0) ==
    /\ InitializerOf(e0) # NULL
    /\ ~found_domain(e0)
    /\ (e0.k = "VarDecl" => e0.dom = NULL)
    /\ \E i \in 1..Len(InitializerOf(e0).elems) : ~InitializerOf(e0).elems[i].valid

\* C26: for a non-empty integer array with no declared element domain in
\* which some element's bounds are invalid, no array bound query fails:
\* lb_array returns -infinity, ub_array returns +infinity and
\* dom_bounds_array returns the interval -infinity..+infinity.
C26_InvalidBoundsDegrade ==
    (/\ call.fn \in {"b_array_lb_int", "b_array_ub_int", "b_dom_bounds_array"}
     /\ SomeBoundsInvalid(call.arg)) =>
        /\ call.fn = "b_array_lb_int" => result = IntResult(MinusInf)
        /\ call.fn = "b_array_ub_int" => result = IntResult(PlusInf)
        /\ call.fn = "b_dom_bounds_array" => result = IntSetResult(infinity_isv)

----------------------------------------------------------------------------
(* dom, dom_array, src/lib/builtins.cpp 751-798, 854-896 *)

\* an array access, with what eval_arrayaccess answers on it: whether it
\* succeeded, and the element it found
ArrayAccess(success, elem) ==
    [k |-> "ArrayAccess", par |-> FALSE, success |-> success, elem |-> elem]

\* the for(;;) loop of b_dom_varint at cur, with the last identifier seen and
\* the answer b of compute_int_bounds on the expression dom was asked about
RECURSIVE dom_loop(_, _, _)
dom_loop(c, lastid, b) ==
    IF c = NULL
    THEN IF lastid = NULL \/ lastid.decl.dom = NULL
         THEN IF b.valid THEN IntSetResult(IntSetVal_range(b.l, b.u))
              ELSE IntSetResult(infinity_isv)
         ELSE IntSetResult(lastid.decl.dom.isv)
    ELSE IF c.k = "Lit" THEN IntSetResult(IntSetVal_a(c.v, c.v))
    ELSE IF c.k = "Id"
         THEN IF c.decl = NULL THEN EvalError("undefined identifier")
              ELSE dom_loop(c.decl.e, c, b)
    ELSE IF c.k = "ArrayAccess"
         THEN dom_loop(IF c.success THEN c.elem ELSE NULL, lastid, b)
    ELSE dom_loop(NULL, lastid, b)

\* a plausible slip: the declared domain of the first identifier is kept
RECURSIVE dom_loop_first_id(_, _, _)
dom_loop_first_id(c, lastid, b) ==
    IF c = NULL
    THEN IF lastid = NULL \/ lastid.decl.dom = NULL
         THEN IF b.valid THEN IntSetResult(IntSetVal_range(b.l, b.u))
              ELSE IntSetResult(infinity_isv)
         ELSE IntSetResult(lastid.decl.dom.isv)
    ELSE IF c.k = "Lit" THEN IntSetResult(IntSetVal_a(c.v, c.v))
    ELSE IF c.k = "Id"
         THEN IF c.decl = NULL THEN EvalError("undefined identifier")
              ELSE dom_loop_first_id(c.decl.e, IF lastid = NULL THEN c ELSE lastid, b)
    ELSE IF c.k = "ArrayAccess"
         THEN dom_loop_first_id(IF c.success THEN c.elem ELSE NULL, lastid, b)
    ELSE dom_loop_first_id(NULL, lastid, b)

\* a plausible slip, as b_dom_varint
b_dom_varint_first_id(e, b) == dom_loop_first_id(e, NULL, b)

b_dom_varint(e, b) == dom_loop(e, NULL, b)

\* the union of two range-sets; the only set with an infinite end in the
\* model is the whole line
Ranges_Union_inf(i0, i1) ==
    IF i0 = infinity_isv \/ i1 = infinity_isv THEN infinity_isv
    ELSE Ranges_Union(i0, i1)

\* the while loop of b_dom_array: the array literal behind ae, or the error
\* raised on the way
RECURSIVE dom_array_lit(_)
dom_array_lit(ae) ==
    IF ae.k = "ArrayLit" THEN ae
    ELSE IF ae.k = "Id"
         THEN IF ae.decl = NULL THEN EvalError("undefined identifier")
              ELSE IF ae.decl.e = NULL
              THEN IF ae.decl.flat_e = NULL
                   THEN EvalError("array without initialiser")
                   ELSE dom_array_lit(ae.decl.flat_e)
              ELSE dom_array_lit(ae.decl.e)
    ELSE EvalError("invalid argument to dom")

\* the for loop of b_dom_array from element i on, isv being the union so far
RECURSIVE dom_array_loop(_, _, _, _)
dom_array_loop(elems, bs, i, isv) ==
    IF i > Len(elems) THEN IntSetResult(isv)
    ELSE LET r == b_dom_varint(elems[i], bs[i])
         IN  IF r.kind # "IntSetVal" THEN r
             ELSE dom_array_loop(elems, bs, i + 1, Ranges_Union_inf(isv, r.isv))

b_dom_array(ae, bs) ==
    LET al == dom_array_lit(ae)
    IN  IF "kind" \in DOMAIN al THEN al
        ELSE IF Len(al.elems) = 0 THEN IntSetResult(<<>>)
        ELSE LET r == b_dom_varint(al.elems[1], bs[1])
             IN  IF r.kind # "IntSetVal" THEN r
                 ELSE dom_array_loop(al.elems, bs, 2, r.isv)

\* declared domains of integer variables: none, a range, two ranges
VarDomains ==
    {NULL, IntSetDom(<<Range(Fin(1), Fin(2))>>),
     IntSetDom(<<Range(Fin(0), Fin(0)), Range(Fin(2), Fin(2))>>)}

\* the expressions dom is asked about, with chains of at most d indirections
RECURSIVE DomExprs(_)
DomExprs(d) ==
    LET leaves == {Lit(v) : v \in ExpVals} \cup {VarCall, Id(NULL), ArrayAccess(FALSE, NULL)}
    IN  IF d = 0 THEN leaves
        ELSE leaves
             \cup {Id(VarDecl(FALSE, dom, e)) :
                      dom \in VarDomains, e \in {NULL} \cup DomExprs(d - 1)}
             \cup {ArrayAccess(TRUE, e) : e \in DomExprs(d - 1)}

\* what compute_int_bounds answers on the expression
DomBounds ==
    {IntBounds(Fin(0), Fin(0), FALSE), IntBounds(Fin(0), Fin(1), TRUE),
     IntBounds(MinusInf, PlusInf, TRUE)}

\* the elements of the arrays handed to dom_array
DomElems ==
    {Lit(v) : v \in ExpVals}
    \cup {VarCall, ArrayAccess(FALSE, NULL), Id(VarDecl(FALSE, NULL, Lit(1)))}
    \cup {Id(VarDecl(FALSE, dom, NULL)) : dom \in VarDomains}

DomArrays == {ArrayLitOf(s) : s \in SeqsUpTo(DomElems, MaxBoundsLen)}

\* the arguments of dom_array: an array literal, an identifier of an array
\* with an initializer or with a flattened initializer only, another construct
DomArrayArgs ==
    DomArrays
    \cup {Id(ArrayVarDecl(NULL, al, NULL)) : al \in DomArrays}
    \cup {Id(ArrayVarDecl(NULL, NULL, f)) : f \in {NULL} \cup DomArrays}
    \cup {Id(NULL), VarCall}

Call_b_dom_varint ==
    /\ ChaseIdle
    /\ \E e \in DomExprs(MaxDepth + 1), b \in DomBounds :
          /\ call' = [fn |-> "b_dom_varint", arg |-> e, b |-> b]
          /\ result' = b_dom_varint(e, b)

Call_b_dom_array ==
    /\ ChaseIdle
    /\ \E ae \in DomArrayArgs, bs \in [1..MaxBoundsLen -> DomBounds] :
          /\ call' = [fn |-> "b_dom_array", arg |-> ae, bs |-> bs]
          /\ result' = b_dom_array(ae, bs)

NextDom ==
    \/ Call_b_dom_varint
    \/ Call_b_dom_array
    \/ Return

SpecDom == InitIdle /\ [][NextDom]_vars

\* where the chain of indirections from e stops: at a literal, at an
\* identifier that is not declared, or at its end with the last identifier
\* visited (NULL: none)
RECURSIVE Follow(_, _)
Follow(e, last) ==
    IF e = NULL THEN [at |-> "end", last |-> last]
    ELSE IF e.k = "Lit" THEN [at |-> "literal", v |-> e.v]
    ELSE IF e.k = "Id"
         THEN IF e.decl = NULL THEN [at |-> "undefined"] ELSE Follow(e.decl.e, e)
    ELSE IF e.k = "ArrayAccess" /\ e.success THEN Follow(e.elem, last)
    ELSE [at |-> "end", last |-> last]

HasDomain(id) == id # NULL /\ id.decl.dom # NULL

\* the integers of the domains of the elements of an array, when none of
\* them is the whole line
ElementsUnion(elems, bs) ==
    UNION {ToSet(b_dom_varint(elems[i], bs[i]).isv) : i \in 1..Len(elems)}

\* C27: dom(x) follows identifier-to-initializer and array-access
\* indirections: at an integer literal v it returns {v}; when the chain ends
\* it returns the declared domain of the last identifier visited if it has
\* one, and otherwise the interval of the computed bounds of x, or
\* -infinity..+infinity when those are invalid; a failed array access only
\* ends the chain.  dom_array(A) is the union of dom over the elements of A,
\* and the empty set for an empty A.
C27_DomFollowsChain ==
    /\ call.fn = "b_dom_varint" =>
          LET f == Follow(call.arg, NULL)
          IN  /\ f.at = "literal" => result = IntSetResult(<<Range(Fin(f.v), Fin(f.v))>>)
              /\ (f.at = "end" /\ HasDomain(f.last)) =>
                    result = IntSetResult(f.last.decl.dom.isv)
              /\ (f.at = "end" /\ ~HasDomain(f.last) /\ call.b.valid) =>
                    result = IntSetResult(<<Range(call.b.l, call.b.u)>>)
              /\ (f.at = "end" /\ ~HasDomain(f.last) /\ ~call.b.valid) =>
                    result = IntSetResult(<<Range(MinusInf, PlusInf)>>)
    /\ (call.fn = "b_dom_array" /\ "kind" \notin DOMAIN dom_array_lit(call.arg)) =>
          LET elems == dom_array_lit(call.arg).elems
              doms == [i \in 1..Len(elems) |-> b_dom_varint(elems[i], call.bs[i])]
          IN  /\ elems = <<>> => result = IntSetResult(<<>>)
              /\ (\A i \in 1..Len(elems) : doms[i].kind = "IntSetVal") =>
                    /\ result.kind = "IntSetVal"
                    /\ IF \E i \in 1..Len(elems) : doms[i].isv = infinity_isv
                       THEN result.isv = infinity_isv
                       ELSE /\ ToSet(result.isv) = ElementsUnion(elems, call.bs)
                            /\ result.isv = FromSet(ToSet(result.isv))

\* dom of an identifier with declared domain 1..2 whose initializer is an
\* array access that failed: the chain ended there, and the declared domain
\* of the identifier was returned
C27_Witness ==
    /\ call.fn = "b_dom_varint"
    /\ call.arg = Id(VarDecl(FALSE, IntSetDom(<<Range(Fin(1), Fin(2))>>),
                             ArrayAccess(FALSE, NULL)))
    /\ result = IntSetResult(<<Range(Fin(1), Fin(2))>>)

----------------------------------------------------------------------------
(* GCLock around the builtins that allocate, src/lib/builtins.cpp 1165-1180,
   1708-1732, 2140-2172 *)

\* the caller of a builtin holds at most MaxLocks guards of its own
MaxLocks == 1

\* exp_is_fixed run to its end on an expression tree
RECURSIVE exp_is_fixed(_)
exp_is_fixed(c) ==
    IF chase_returns(c) THEN chase_ret(c) ELSE exp_is_fixed(chase_next(c))

\* the for loop of b_fix_array from element i on
RECURSIVE fix_array_loop(_, _, _)
fix_array_loop(al, i, fixed) ==
    IF i > Len(al) THEN FixedArrayResult(fixed)
    ELSE IF exp_is_fixed(eval_par(al[i])) = NULL
         THEN EvalErrorAt("expression is not fixed", i)
         ELSE fix_array_loop(al, i + 1, Append(fixed, exp_is_fixed(eval_par(al[i]))))

b_fix_array(c) == fix_array_loop(c.arg, 1, <<>>)

\* the value or the error the builtin ends with
Outcome_of(c) ==
    IF c.fn = "b_fix_array" THEN b_fix_array(c)
    ELSE IF c.fn = "b_sort_by_int" THEN b_sort_by_int(c)
    ELSE b_slice(c)

\* GCLock lock; ArrayLit* al = eval_array_lit(env,call->arg(0));
Enter_b_fix_array ==
    /\ call = NoCall /\ pc = "idle"
    /\ \E al \in SeqsUpTo(ArrElems, MaxFixLen) :
          call' = [fn |-> "b_fix_array", arg |-> al, held |-> env.locks]
    /\ env' = [locks |-> env.locks + 1]
    /\ idx' = 1
    /\ pc' = "entered"
    /\ UNCHANGED <<result, cur, examined>>

\* no GCLock is declared in b_sort_by_int
Enter_b_sort_by_int ==
    /\ call = NoCall /\ pc = "idle"
    /\ \E n \in 0..MaxFixLen :
          \E al \in InjectiveSeqs(ElemIds, n), o \in [1..n -> Vals] :
             call' = [fn |-> "b_sort_by_int", al |-> al, order_e |-> o,
                      held |-> env.locks]
    /\ idx' = 0
    /\ pc' = "entered"
    /\ UNCHANGED <<result, cur, examined, env>>

\* no GCLock is declared in b_slice
Enter_b_slice ==
    /\ call = NoCall /\ pc = "idle"
    /\ \E al \in SeqsOfLen(SliceExtents, 1), slice \in SeqsOfLen(Selectors, 1),
         d \in SeqsOfLen(NewDims, 1) :
          call' = [fn |-> "b_slice", al |-> al, slice |-> slice, dims |-> d,
                   held |-> env.locks]
    /\ idx' = 0
    /\ pc' = "entered"
    /\ UNCHANGED <<result, cur, examined, env>>

\* a throw unwinds the builtin: the destructors of its guards run
builtin_throws ==
    /\ pc = "entered"
    /\ Outcome_of(call).kind \in {"EvalError", "ResultUndefinedError"}
    /\ result' = Outcome_of(call)
    /\ env' = [locks |-> env.locks - idx]
    /\ idx' = 0
    /\ pc' = "done"
    /\ UNCHANGED <<call, cur, examined>>

\* new ArrayLit(...): the array the builtin returns is allocated
new_ArrayLit ==
    /\ pc = "entered"
    /\ Outcome_of(call).kind \notin {"EvalError", "ResultUndefinedError"}
    /\ result' = Outcome_of(call)
    /\ pc' = "allocated"
    /\ UNCHANGED <<call, cur, idx, examined, env>>

\* return ret: the destructors of the guards of the builtin run
builtin_returns ==
    /\ pc = "allocated"
    /\ env' = [locks |-> env.locks - idx]
    /\ idx' = 0
    /\ pc' = "done"
    /\ UNCHANGED <<call, result, cur, examined>>

InitGC ==
    /\ call = NoCall
    /\ result = NoResult
    /\ pc = "idle"
    /\ cur = NULL
    /\ idx = 0
    /\ examined = <<>>
    /\ \E n \in 0..MaxLocks : env = [locks |-> n]

NextGC ==
    \/ Enter_b_fix_array
    \/ Enter_b_sort_by_int
    \/ Enter_b_slice
    \/ builtin_throws
    \/ new_ArrayLit
    \/ builtin_returns
    \/ Return

SpecGC == InitGC /\ [][NextGC]_vars

\* C28: every builtin evaluation that allocates a new array or range-set
\* holds, at the moment of the allocation, a guard it acquired on entry, and
\* on every exit path, normal return or raised error, the number of guards
\* held equals the number held before the call.
C28_GuardHeldAtAllocation ==
    /\ pc = "allocated" => env.locks > call.held
    /\ pc = "done" => env.locks = call.held

\* the second half alone: the guards are balanced on every exit path
C28_GuardsBalanced == pc = "done" => env.locks = call.held

----------------------------------------------------------------------------
(* array_intersect on every array of range-sets, checked under SpecSetOps *)

\* the integers that are in every set of the array
IntersectionOf(al) ==
    IF Len(al) = 0 THEN {}
    ELSE {x \in ToSet(al[1]) : \A i \in 1..Len(al) : x \in ToSet(al[i])}

\* the ranges have min <= max, ascend, and leave a gap of at least one
\* integer between one and the next
Canonical(isv) ==
    /\ \A i \in 1..Len(isv) : isv[i].min.v <= isv[i].max.v
    /\ \A i \in 1..(Len(isv) - 1) : isv[i].max.v + 1 < isv[i + 1].min.v

\* C29: array_intersect(A) terminates for every array A of finite canonical
\* range-sets and returns exactly the intersection of all elements of A (the
\* empty set when A is empty or its first element is empty) as a canonical
\* range-set: each range has min <= max, the ranges are in strictly
\* ascending order, and consecutive ranges are at least one integer apart.
C29_ArrayIntersectExact ==
    call.fn = "b_array_intersect" =>
        /\ result.kind = "IntSetVal"
        /\ ToSet(result.isv) = IntersectionOf(call.al)
        /\ Canonical(result.isv)

----------------------------------------------------------------------------
(* compute_div_bounds on every finite divisor, checked under SpecDiv *)

\* C30: for all finite dividend bounds lx..ux and finite divisor bounds
\* ly..uy, compute_div_bounds returns a well-formed interval with lower
\* bound <= upper bound, also when the divisor bounds are exactly 0..0, so
\* that no divisor sub-interval is left and no corner quotient is evaluated.
C30_DivBoundsWellFormed ==
    DivFiniteCall =>
        /\ result.kind = "IntSetVal"
        /\ Len(result.isv) = 1
        /\ isFinite(result.isv[1].min) /\ isFinite(result.isv[1].max)
        /\ result.isv[1].min.v <= result.isv[1].max.v

\* the same for the divisors that hold a non-zero value
C30_DivBoundsWellFormedNonZero ==
    (DivFiniteCall /\ (call.by.l.v # 0 \/ call.by.u.v # 0)) =>
        C30_DivBoundsWellFormed

====
